---- MODULE Spec2Model ----
(***************************************************************************)
(* BingeBuddy recommendation core: the preference learning store, the      *)
(* personalization scorer and ranker (src/lib/ai/preferenceLearning.ts),   *)
(* the confidence scorer (confidenceScoring) and the reference resolver    *)
(* (referenceMovieAnalyzer).                                               *)
(*                                                                         *)
(* Numbers.  JavaScript numbers are modelled in fixed point:               *)
(*   weights, learningRate, maxWeight, decayFactor : units of 1/10000      *)
(*   preferenceInfluence, explorationFactor        : percent               *)
(*   scores (referenceScore, finalScore, bonus...) : units of 1/1000       *)
(*   time (Date.now(), timestamps)                 : whole weeks           *)
(* Random record ids and referenceMovieId play no part in any computation  *)
(* and are left out of UserFeedback.                                       *)
(***************************************************************************)
EXTENDS Integers, Sequences, FiniteSets, TLC

VARIABLES
  state,      \* the PreferenceLearningState of the session
  now,        \* Date.now(), in weeks
  score,      \* <<>> or the result of the last calculatePersonalizationScore
              \* call against the current state
  ranking,    \* <<>> or the last applyPersonalizedRanking call against the
              \* current state: its input, the sorted list and its result
  search,     \* <<>> or the extracted reference and what the catalog returns
              \* for it (movie and TV search results)
  reference,  \* <<>> or the result of findReferenceMovie for the search
  confidence, \* <<>> or a MatchContext and the ConfidenceScore computed for it
  determined, \* <<>> or a score, a factor combination and the level
              \* determineLevel derives from them
  merged,     \* <<>> or a mergeLearningStates call: its two states, the
              \* clock reading and its result
  compared,   \* <<>> or two calls of one factor function on inputs that
              \* differ in one respect, and their results
  analysis,   \* <<>> or a call of the reference profiler: its inputs, what
              \* the catalog's details lookup did and the analysis returned
  session,    \* the signed-in user, "none" for a guest: the user of the auth
              \* session and of Firebase's auth.currentUser
  localStorage,  \* per storage key, <<>> or the learning state stored under it
  serverRecords, \* per user, <<>> or the learning state of the server record
  syncTimeout,   \* <<>> or the learning state the pending server sync holds
  saved,         \* per user, whether the user's last feedback click recorded
                 \* a like and saved it (a later click that removes it
                 \* resets this)
  eraCall,    \* <<>> or a call of one of the era functions: its input and
              \* what it returned
  latest      \* the calls so far: for every (mediaId, mediaType) pair whose
              \* latest recordFeedback was not followed by a removeFeedback,
              \* the feedback of that call

learnVars == <<state, now, score, ranking>>

resolveVars == <<search, reference, confidence, determined>>

probeVars == <<merged, compared, analysis, eraCall>>

syncVars == <<session, localStorage, serverRecords, syncTimeout, saved>>

storeVars == <<probeVars, latest, syncVars>>

vars == <<state, now, score, ranking, search, reference, confidence, determined, merged, compared,
         analysis, session, localStorage, serverRecords, syncTimeout, saved, latest, eraCall>>

(***************************************************************************)
(* Bounds of the model                                                     *)
(***************************************************************************)
MaxMediaId == 1
MaxHistory == 2
MaxNow == 1
MaxLikes == 5
MaxItems == 12
MaxNovel == 2

(***************************************************************************)
(* Generic helpers                                                         *)
(***************************************************************************)
NoValue == "undefined"

Min(a, b) == IF a < b THEN a ELSE b

Max(a, b) == IF a > b THEN a ELSE b

Abs(a) == IF a < 0 THEN 0 - a ELSE a

\* Math.round(a / b) for b > 0: the nearest integer, halves rounded up.
MathRound(a, b) == (2 * a + b) \div (2 * b)

RECURSIVE SumSeq(_)
SumSeq(s) == IF s = <<>> THEN 0 ELSE Head(s) + SumSeq(Tail(s))

Range(s) == {s[i] : i \in DOMAIN s}

\* Number of positions of s holding k.
Occurrences(s, k) == Cardinality({i \in DOMAIN s : s[i] = k})

\* Array.prototype.findIndex: first index (1-based) satisfying the test, 0
\* when none does.
FindIndex(history, mediaId, mediaType) ==
  LET hits == {i \in DOMAIN history :
                 history[i].mediaId = mediaId /\ history[i].mediaType = mediaType}
  IN IF hits = {} THEN 0 ELSE CHOOSE i \in hits : \A j \in hits : i <= j

(***************************************************************************)
(* Types and constants of preferenceLearning.ts                            *)
(***************************************************************************)
WeightUnit == 100 * 100

ScoreUnit == 10 * 100

FeedbackType == {"like", "dislike", "neutral"}

MediaTypes == {"movie", "tv"}

Dimensions == {"genres", "languages", "industries", "eras", "narrativeScales",
               "audienceTypes", "themes"}

DEFAULT_CONFIG ==
  [maxWeight |-> 8000, learningRate |-> 1500, decayFactor |-> 9500,
   minFeedbackThreshold |-> 3, preferenceInfluence |-> 25, explorationFactor |-> 15]

\* A session configuration overriding the defaults (LearningConfig is
\* overridable per session): faster learning, later personalization, more
\* exploration.
SESSION_CONFIG ==
  [maxWeight |-> 8000, learningRate |-> 5000, decayFactor |-> 9500,
   minFeedbackThreshold |-> 4, preferenceInfluence |-> 25, explorationFactor |-> 50]

Configs == {DEFAULT_CONFIG, SESSION_CONFIG}

EMPTY_WEIGHTS == [d \in Dimensions |-> [k \in {} |-> 0]]

createEmptyState(cfg, t) ==
  [feedbackHistory |-> <<>>, attributeWeights |-> EMPTY_WEIGHTS, config |-> cfg,
   totalLikes |-> 0, totalDislikes |-> 0, lastUpdated |-> t]

(***************************************************************************)
(* The attribute snapshots the callers supply (MovieAttributes), one per   *)
(* catalog item.  Optional narrativeScale / audienceType that are absent   *)
(* hold NoValue; absent themes are the empty list (both are looped over    *)
(* zero times); an empty originalLanguage is the falsy string.             *)
(***************************************************************************)
NovelId == 100 + 2

PartlyNovelId == 100 + 3

MovieAttributes(id, type) ==
  IF id = 1 /\ type = "movie" THEN
    [id |-> id, type |-> type, genreIds |-> <<28, 12>>, originalLanguage |-> "te",
     industry |-> "tollywood", releaseEra |-> "2010s", themes |-> <<"heroism", "power">>,
     narrativeScale |-> "epic", audienceType |-> "mass"]
  ELSE IF id = 1 /\ type = "tv" THEN
    [id |-> id, type |-> type, genreIds |-> <<28>>, originalLanguage |-> "te",
     industry |-> "tollywood", releaseEra |-> "recent", themes |-> <<>>,
     narrativeScale |-> NoValue, audienceType |-> NoValue]
  ELSE IF id = 2 /\ type = "movie" THEN
    [id |-> id, type |-> type, genreIds |-> <<18, 28>>, originalLanguage |-> "en",
     industry |-> "hollywood", releaseEra |-> "2000s", themes |-> <<"heroism">>,
     narrativeScale |-> "medium", audienceType |-> "mass"]
  ELSE IF id = 2 /\ type = "tv" THEN
    [id |-> id, type |-> type, genreIds |-> <<>>, originalLanguage |-> "",
     industry |-> "other", releaseEra |-> "unknown", themes |-> <<>>,
     narrativeScale |-> NoValue, audienceType |-> "niche"]
  ELSE IF id = NovelId THEN
    [id |-> id, type |-> type, genreIds |-> <<80, 28>>, originalLanguage |-> "ko",
     industry |-> "korean", releaseEra |-> "90s", themes |-> <<"crime">>,
     narrativeScale |-> "intimate", audienceType |-> "mature"]
  ELSE IF id = PartlyNovelId THEN
    [id |-> id, type |-> type, genreIds |-> <<28>>, originalLanguage |-> "hi",
     industry |-> "bollywood", releaseEra |-> "2010s", themes |-> <<>>,
     narrativeScale |-> NoValue, audienceType |-> NoValue]
  ELSE
    [id |-> id, type |-> type, genreIds |-> <<28>>, originalLanguage |-> "te",
     industry |-> "tollywood", releaseEra |-> "2010s", themes |-> <<"heroism">>,
     narrativeScale |-> "epic", audienceType |-> "mass"]

\* The attribute keys of one snapshot that recalculateWeights touches in a
\* dimension, in the order of its loop; an absent or falsy attribute
\* touches none.
AttributeKeys(attrs, d) ==
  CASE d = "genres" -> attrs.genreIds
    [] d = "languages" ->
         IF attrs.originalLanguage # "" THEN <<attrs.originalLanguage>> ELSE <<>>
    [] d = "industries" -> <<attrs.industry>>
    [] d = "eras" -> <<attrs.releaseEra>>
    [] d = "themes" -> attrs.themes
    [] d = "narrativeScales" ->
         IF attrs.narrativeScale # NoValue THEN <<attrs.narrativeScale>> ELSE <<>>
    [] d = "audienceTypes" ->
         IF attrs.audienceType # NoValue THEN <<attrs.audienceType>> ELSE <<>>

(***************************************************************************)
(* recalculateWeights                                                      *)
(***************************************************************************)
\* Math.pow(config.decayFactor, ageInDays / 7) for an age of whole weeks.
RECURSIVE recencyMultiplier(_, _)
recencyMultiplier(decayFactor, ageWeeks) ==
  IF ageWeeks <= 0 THEN WeightUnit
  ELSE (recencyMultiplier(decayFactor, ageWeeks - 1) * decayFactor) \div WeightUnit

\* direction * learningRate * recencyMultiplier of one feedback record; a
\* neutral record is skipped.
delta(fb, config, t) ==
  IF fb.feedback = "neutral" THEN 0
  ELSE (IF fb.feedback = "like" THEN 1 ELSE 0 - 1)
       * ((config.learningRate * recencyMultiplier(config.decayFactor, t - fb.timestamp))
           \div WeightUnit)

capWeightUncapped(config, w) == w

capWeight(config, w) == Max(0 - config.maxWeight, Min(config.maxWeight, w))

\* The keys a dimension holds after the loop: every key touched by a
\* non-neutral record (also when its deltas cancel to 0).
WeightKeys(history, d) ==
  UNION {Range(AttributeKeys(history[i].attributes, d)) :
           i \in {j \in DOMAIN history : history[j].feedback # "neutral"}}

accumulate(history, config, t, d, k) ==
  SumSeq([i \in DOMAIN history |->
            Occurrences(AttributeKeys(history[i].attributes, d), k)
              * delta(history[i], config, t)])

recalculateWeights(st, t) ==
  [st EXCEPT !.attributeWeights =
     [d \in Dimensions |->
        [k \in WeightKeys(st.feedbackHistory, d) |->
           capWeight(st.config, accumulate(st.feedbackHistory, st.config, t, d, k))]]]

(***************************************************************************)
(* recordFeedback / removeFeedback / getFeedback                           *)
(***************************************************************************)
likeCount(fb) == IF fb = "like" THEN 1 ELSE 0

dislikeCount(fb) == IF fb = "dislike" THEN 1 ELSE 0

recordFeedbackNoDelta(st, attributes, feedback, t) ==
  LET feedbackRecord == [mediaId |-> attributes.id, mediaType |-> attributes.type,
                         feedback |-> feedback, attributes |-> attributes,
                         timestamp |-> t]
      existingIndex == FindIndex(st.feedbackHistory, attributes.id, attributes.type)
  IN IF existingIndex > 0 THEN
       recalculateWeights(
         [st EXCEPT !.feedbackHistory = [@ EXCEPT ![existingIndex] = feedbackRecord],
                    !.totalLikes = @ + likeCount(feedback),
                    !.totalDislikes = @ + dislikeCount(feedback),
                    !.lastUpdated = t], t)
     ELSE
       recalculateWeights(
         [st EXCEPT !.feedbackHistory = Append(@, feedbackRecord),
                    !.totalLikes = @ + likeCount(feedback),
                    !.totalDislikes = @ + dislikeCount(feedback),
                    !.lastUpdated = t], t)

recordFeedbackAppendOnly(st, attributes, feedback, t) ==
  LET feedbackRecord == [mediaId |-> attributes.id, mediaType |-> attributes.type,
                         feedback |-> feedback, attributes |-> attributes,
                         timestamp |-> t]
      existingIndex == FindIndex(st.feedbackHistory, attributes.id, attributes.type)
      oldFeedback == IF existingIndex > 0
                       THEN st.feedbackHistory[existingIndex].feedback ELSE "neutral"
  IN recalculateWeights(
       [st EXCEPT !.feedbackHistory = Append(@, feedbackRecord),
                  !.totalLikes = @ + likeCount(feedback) - likeCount(oldFeedback),
                  !.totalDislikes = @ + dislikeCount(feedback) - dislikeCount(oldFeedback),
                  !.lastUpdated = t], t)

recordFeedback(st, attributes, feedback, t) ==
  LET feedbackRecord == [mediaId |-> attributes.id, mediaType |-> attributes.type,
                         feedback |-> feedback, attributes |-> attributes,
                         timestamp |-> t]
      existingIndex == FindIndex(st.feedbackHistory, attributes.id, attributes.type)
  IN IF existingIndex > 0 THEN
       LET oldFeedback == st.feedbackHistory[existingIndex].feedback
           likesDelta == likeCount(feedback) - likeCount(oldFeedback)
           dislikesDelta == dislikeCount(feedback) - dislikeCount(oldFeedback)
       IN recalculateWeights(
            [st EXCEPT !.feedbackHistory = [@ EXCEPT ![existingIndex] = feedbackRecord],
                       !.totalLikes = @ + likesDelta,
                       !.totalDislikes = @ + dislikesDelta,
                       !.lastUpdated = t], t)
     ELSE
       recalculateWeights(
         [st EXCEPT !.feedbackHistory = Append(@, feedbackRecord),
                    !.totalLikes = @ + likeCount(feedback),
                    !.totalDislikes = @ + dislikeCount(feedback),
                    !.lastUpdated = t], t)

removeFeedbackAlwaysUpdates(st, mediaId, mediaType, t) ==
  LET existingIndex == FindIndex(st.feedbackHistory, mediaId, mediaType)
      newHistory == [i \in 1..(Len(st.feedbackHistory) - (IF existingIndex = 0 THEN 0 ELSE 1)) |->
                       IF existingIndex = 0 \/ i < existingIndex THEN st.feedbackHistory[i]
                       ELSE st.feedbackHistory[i + 1]]
  IN recalculateWeights(
       [st EXCEPT !.feedbackHistory = newHistory,
                  !.totalLikes = @ - (IF existingIndex = 0 THEN 0
                                      ELSE likeCount(st.feedbackHistory[existingIndex].feedback)),
                  !.totalDislikes = @ - (IF existingIndex = 0 THEN 0
                                         ELSE dislikeCount(st.feedbackHistory[existingIndex].feedback)),
                  !.lastUpdated = t], t)

removeFeedbackNoRecompute(st, mediaId, mediaType, t) ==
  LET existingIndex == FindIndex(st.feedbackHistory, mediaId, mediaType)
  IN IF existingIndex = 0 THEN st
     ELSE
       LET removed == st.feedbackHistory[existingIndex]
           newHistory == [i \in 1..(Len(st.feedbackHistory) - 1) |->
                            IF i < existingIndex THEN st.feedbackHistory[i]
                            ELSE st.feedbackHistory[i + 1]]
       IN [st EXCEPT !.feedbackHistory = newHistory,
                     !.totalLikes = @ - likeCount(removed.feedback),
                     !.totalDislikes = @ - dislikeCount(removed.feedback),
                     !.lastUpdated = t]

removeFeedback(st, mediaId, mediaType, t) ==
  LET existingIndex == FindIndex(st.feedbackHistory, mediaId, mediaType)
  IN IF existingIndex = 0 THEN st
     ELSE
       LET removed == st.feedbackHistory[existingIndex]
           newHistory == [i \in 1..(Len(st.feedbackHistory) - 1) |->
                            IF i < existingIndex THEN st.feedbackHistory[i]
                            ELSE st.feedbackHistory[i + 1]]
       IN recalculateWeights(
            [st EXCEPT !.feedbackHistory = newHistory,
                       !.totalLikes = @ - likeCount(removed.feedback),
                       !.totalDislikes = @ - dislikeCount(removed.feedback),
                       !.lastUpdated = t], t)

getFeedbackAbsentAsDislike(st, mediaId, mediaType) ==
  LET i == FindIndex(st.feedbackHistory, mediaId, mediaType)
  IN IF i = 0 THEN "dislike" ELSE st.feedbackHistory[i].feedback

getFeedback(st, mediaId, mediaType) ==
  LET i == FindIndex(st.feedbackHistory, mediaId, mediaType)
  IN IF i = 0 THEN "neutral" ELSE st.feedbackHistory[i].feedback

\* mergeLearningStates(primary, secondary) at clock reading t.  The key
\* `${mediaType}-${mediaId}` is the pair of the two.
mergeLearningStatesKeepWeights(primary, secondary, t) ==
  LET existingIds == {<<primary.feedbackHistory[i].mediaType, primary.feedbackHistory[i].mediaId>> :
                        i \in DOMAIN primary.feedbackHistory}
      isNew(fb) == <<fb.mediaType, fb.mediaId>> \notin existingIds
      mergedHistory == primary.feedbackHistory \o SelectSeq(secondary.feedbackHistory, isNew)
  IN [primary EXCEPT !.feedbackHistory = mergedHistory,
                     !.totalLikes = Len(SelectSeq(mergedHistory, LAMBDA fb : fb.feedback = "like")),
                     !.totalDislikes = Len(SelectSeq(mergedHistory, LAMBDA fb : fb.feedback = "dislike")),
                     !.lastUpdated = t]

mergeLearningStates(primary, secondary, t) ==
  LET existingIds == {<<primary.feedbackHistory[i].mediaType, primary.feedbackHistory[i].mediaId>> :
                        i \in DOMAIN primary.feedbackHistory}
      isNew(fb) == <<fb.mediaType, fb.mediaId>> \notin existingIds
      mergedHistory == primary.feedbackHistory \o SelectSeq(secondary.feedbackHistory, isNew)
  IN recalculateWeights(
       [primary EXCEPT !.feedbackHistory = mergedHistory,
                       !.totalLikes = Len(SelectSeq(mergedHistory, LAMBDA fb : fb.feedback = "like")),
                       !.totalDislikes = Len(SelectSeq(mergedHistory, LAMBDA fb : fb.feedback = "dislike")),
                       !.lastUpdated = t], t)

(***************************************************************************)
(* Personalization scoring                                                 *)
(***************************************************************************)
\* attributeWeights.<dimension>[key] !== undefined
hasWeight(st, d, k) == k \in DOMAIN st.attributeWeights[d]

calculateExplorationBonus(st, attributes) ==
  IF st.totalLikes < 3 THEN 0
  ELSE
    LET hasNovelGenre == \E i \in DOMAIN attributes.genreIds :
                           ~hasWeight(st, "genres", attributes.genreIds[i])
        noveltyScore ==
            (IF hasNovelGenre THEN 3 ELSE 0)
          + (IF ~hasWeight(st, "languages", attributes.originalLanguage) THEN 3 ELSE 0)
          + (IF ~hasWeight(st, "eras", attributes.releaseEra) THEN 2 ELSE 0)
    IN Min(10 * ScoreUnit, (noveltyScore * st.config.explorationFactor * ScoreUnit) \div 100)

\* The weighted contributions of the candidate's attributes that have a
\* learned weight, in units of 1/10 of a weight unit: genre x1, language
\* x1.5, industry x1.2, era x1, theme x0.5.
contributions(st, c) ==
  LET w == st.attributeWeights
  IN    [i \in DOMAIN c.genreIds |->
           IF hasWeight(st, "genres", c.genreIds[i])
             THEN <<10 * w["genres"][c.genreIds[i]]>> ELSE <<>>]
     \o <<IF hasWeight(st, "languages", c.originalLanguage)
            THEN <<15 * w["languages"][c.originalLanguage]>> ELSE <<>>,
          IF hasWeight(st, "industries", c.industry)
            THEN <<12 * w["industries"][c.industry]>> ELSE <<>>,
          IF hasWeight(st, "eras", c.releaseEra)
            THEN <<10 * w["eras"][c.releaseEra]>> ELSE <<>>>>
     \o [i \in DOMAIN c.themes |->
           IF hasWeight(st, "themes", c.themes[i])
             THEN <<5 * w["themes"][c.themes[i]]>> ELSE <<>>]

RECURSIVE Flatten(_)
Flatten(ss) == IF ss = <<>> THEN <<>> ELSE Head(ss) \o Flatten(Tail(ss))

\* explanation entries of the scored branch (|weight| > 0.3 on a genre or
\* on the language)
explanationOf(st, c) ==
  LET w == st.attributeWeights
      strong(x) == 10 * Abs(x) > 3 * WeightUnit
  IN Flatten([i \in DOMAIN c.genreIds |->
                IF hasWeight(st, "genres", c.genreIds[i])
                   /\ strong(w["genres"][c.genreIds[i]])
                  THEN <<IF w["genres"][c.genreIds[i]] > 0
                           THEN "Liked genre" ELSE "Disliked genre">>
                  ELSE <<>>])
     \o (IF hasWeight(st, "languages", c.originalLanguage)
            /\ strong(w["languages"][c.originalLanguage])
           THEN <<IF w["languages"][c.originalLanguage] > 0
                    THEN "Preferred language" ELSE "Less preferred language">>
           ELSE <<>>)

clampScoreOff(x) == x

clampScore(x) == Max(0, Min(100 * ScoreUnit, x))

belowThresholdEarly(st) ==
  st.totalLikes + st.totalDislikes < st.config.minFeedbackThreshold - 1

belowThresholdInclusive(st) ==
  st.totalLikes + st.totalDislikes <= st.config.minFeedbackThreshold

belowThreshold(st) ==
  st.totalLikes + st.totalDislikes < st.config.minFeedbackThreshold

calculatePersonalizationScore(st, candidateAttributes, referenceScore) ==
  LET totalFeedback == st.totalLikes + st.totalDislikes
  IN IF belowThreshold(st) THEN
       [referenceScore |-> referenceScore,
        preferenceAdjustment |-> 0,
        explorationBonus |-> calculateExplorationBonus(st, candidateAttributes),
        finalScore |-> referenceScore,
        preferenceConfidence |-> "low",
        explanation |-> <<"Not enough feedback yet for personalization">>]
     ELSE
       LET parts == Flatten(contributions(st, candidateAttributes))
           preferenceScore == SumSeq(parts)
           attributeCount == Len(parts)
           \* (preferenceScore / attributeCount) * 30 / maxWeight * preferenceInfluence
           cappedPreference ==
             IF attributeCount > 0
               THEN MathRound(preferenceScore * 30 * st.config.preferenceInfluence,
                              attributeCount * st.config.maxWeight)
               ELSE 0
           explorationBonus == calculateExplorationBonus(st, candidateAttributes)
           finalScore == referenceScore + cappedPreference + explorationBonus
           explanation == explanationOf(st, candidateAttributes)
       IN [referenceScore |-> referenceScore,
           preferenceAdjustment |-> MathRound(cappedPreference, 100) * 100,
           explorationBonus |-> explorationBonus,
           finalScore |-> clampScore(finalScore),
           preferenceConfidence |->
             IF totalFeedback >= 10 THEN "high"
             ELSE IF totalFeedback >= 5 THEN "medium" ELSE "low",
           explanation |-> IF explanation # <<>> THEN explanation
                           ELSE <<"Based on your feedback patterns">>]

(***************************************************************************)
(* Ranking                                                                 *)
(***************************************************************************)
\* Array.prototype.slice(from, to) on a 1-based sequence (0-based arguments,
\* negative arguments count from the end).
Slice(s, from, to) ==
  LET n == Len(s)
      a == IF from < 0 THEN Max(n + from, 0) ELSE Min(from, n)
      b == IF to < 0 THEN Max(n + to, 0) ELSE Min(to, n)
  IN IF b <= a THEN <<>> ELSE [i \in 1..(b - a) |-> s[a + i]]

\* scored.sort((a, b) => b.finalScore - a.finalScore): a stable sort,
\* descending by finalScore.
sortByFinalScore(items) ==
  LET fs(i) == items[i].personalizationScore.finalScore
      \* the position an item ends at: behind every item with a larger
      \* finalScore and behind the earlier items with the same finalScore
      position(i) == 1 + Cardinality({j \in DOMAIN items :
                           fs(j) > fs(i) \/ (fs(j) = fs(i) /\ j < i)})
  IN [k \in DOMAIN items |-> items[CHOOSE i \in DOMAIN items : position(i) = k]]

ExploratoryThreshold == 2 * ScoreUnit

ensureTopDiversity(items, st) ==
  IF Len(items) <= 5 \/ st.totalLikes < 5 THEN items
  ELSE
    LET explorationFactor == st.config.explorationFactor
        topCount == Min(10, Len(items))
        explorationSlots == Max(1, (topCount * explorationFactor) \div 100)
        top == Slice(items, 0, topCount)
        rest == Slice(items, topCount, Len(items))
        isExploratory(item) ==
          item.personalizationScore.explorationBonus >= ExploratoryThreshold
        exploratory == Slice(SelectSeq(rest, isExploratory), 0, explorationSlots)
        notChosen(item) == \A i \in DOMAIN exploratory : exploratory[i].id # item.id
    IN IF Len(exploratory) = 0 THEN items
       ELSE
         LET insertPosition == Min(5, topCount - explorationSlots)
         IN    Slice(top, 0, insertPosition)
            \o exploratory
            \o Slice(top, insertPosition, topCount - Len(exploratory))
            \o SelectSeq(rest, notChosen)

scoreItems(st, items) ==
  [i \in DOMAIN items |->
     [id |-> items[i].id,
      personalizationScore |->
        calculatePersonalizationScore(st, items[i].attributes, items[i].referenceScore)]]

applyPersonalizedRanking(st, items) ==
  ensureTopDiversity(sortByFinalScore(scoreItems(st, items)), st)

(***************************************************************************)
(* The learning session: feedback clicks, the clock, and scoring calls     *)
(***************************************************************************)
CandidateIds == {1, NovelId, PartlyNovelId}

ReferenceScores == {0, 50 * ScoreUnit, 100 * ScoreUnit}

\* createEmptyState(), with the session's configuration.
\* The users who sign in on the device.
Users == {"A", "B"}

\* "none": nobody is signed in.
getCurrentUserId(signedIn) == signedIn

isAuthenticated(signedIn) == getCurrentUserId(signedIn) # "none"

\* The key of the signed-in user, or of the guest session of the device.
getStorageKey(signedIn) ==
  IF getCurrentUserId(signedIn) # "none" THEN <<"user", getCurrentUserId(signedIn)>>
  ELSE <<"guest">>

StorageKeys == {getStorageKey(signedIn) : signedIn \in Users \cup {"none"}}

Init ==
  /\ now = 0
  /\ \E cfg \in Configs : state = createEmptyState(cfg, 0)
  /\ score = <<>>
  /\ ranking = <<>>
  /\ search = <<>>
  /\ reference = <<>>
  /\ confidence = <<>>
  /\ determined = <<>>
  /\ merged = <<>>
  /\ compared = <<>>
  /\ analysis = <<>>
  /\ eraCall = <<>>
  /\ session = "none"
  /\ localStorage = [key \in StorageKeys |-> <<>>]
  /\ serverRecords = [user \in Users |-> <<>>]
  /\ syncTimeout = <<>>
  /\ saved = [user \in Users |-> FALSE]
  /\ latest = [p \in {} |-> "neutral"]

\* The initial state of the sessions that leave the learning state alone:
\* its config is the default one.
InitDefault == Init /\ state.config = DEFAULT_CONFIG

\* The record of calls after recordFeedback(pair, feedback) and after
\* removeFeedback(pair).
recorded(calls, pair, feedback) ==
  [p \in DOMAIN calls \cup {pair} |-> IF p = pair THEN feedback ELSE calls[p]]

removed(calls, pair) == [p \in DOMAIN calls \ {pair} |-> calls[p]]

RecordFeedback ==
  \E id \in 1..MaxMediaId, type \in MediaTypes, feedback \in FeedbackType :
    /\ \/ FindIndex(state.feedbackHistory, id, type) > 0
       \/ Len(state.feedbackHistory) < MaxHistory
    /\ state' = recordFeedback(state, MovieAttributes(id, type), feedback, now)
    /\ score' = <<>>
    /\ latest' = recorded(latest, <<id, type>>, feedback)
    /\ UNCHANGED <<now, ranking, resolveVars, probeVars, syncVars>>

RemoveFeedback ==
  \E id \in 1..MaxMediaId, type \in MediaTypes :
    /\ state' = removeFeedback(state, id, type, now)
    /\ score' = <<>>
    /\ latest' = removed(latest, <<id, type>>)
    /\ UNCHANGED <<now, ranking, resolveVars, probeVars, syncVars>>

Tick ==
  /\ now < MaxNow
  /\ now' = now + 1
  /\ UNCHANGED <<state, score, ranking, resolveVars, storeVars>>

\* One scoring call; its result is held until the next feedback.
CalculateScore ==
  \E c \in CandidateIds, referenceScore \in ReferenceScores :
    /\ score = <<>>
    /\ score' = <<[candidate |-> c,
                   result |-> calculatePersonalizationScore(
                                state, MovieAttributes(c, "movie"), referenceScore)]>>
    /\ UNCHANGED <<state, now, ranking, resolveVars, storeVars>>

Next == RecordFeedback \/ RemoveFeedback \/ Tick

Spec == Init /\ [][Next]_vars

(***************************************************************************)
(* The ranking session: a user rating one catalog item after the other,    *)
(* and ranking calls over candidate lists                                  *)
(***************************************************************************)
RankSizes == {5, 6, MaxItems}

RankPatterns == {"flat", "descending"}

\* A candidate list of n items: the items at the positions in novel are
\* unlike anything in the catalog, the others are like catalog item 1.
candidateItems(n, novel, pattern) ==
  [i \in 1..n |->
     [id |-> i,
      attributes |-> MovieAttributes(IF i \in novel THEN NovelId ELSE 1, "movie"),
      referenceScore |-> IF pattern = "flat" THEN 50 * ScoreUnit
                         ELSE (100 - 5 * i) * ScoreUnit]]

\* The user rates the next catalog movie.
RateNext(feedbacks) ==
  \E feedback \in feedbacks :
    /\ Len(state.feedbackHistory) < MaxLikes
    /\ state' = recordFeedback(
                  state, MovieAttributes(Len(state.feedbackHistory) + 1, "movie"),
                  feedback, now)
    /\ ranking' = <<>>
    /\ score' = <<>>
    /\ latest' = recorded(latest, <<Len(state.feedbackHistory) + 1, "movie">>, feedback)
    /\ UNCHANGED <<now, resolveVars, probeVars, syncVars>>

RateNextItem == RateNext(FeedbackType)

LikeOrDislikeNextItem == RateNext({"like", "dislike"})

NextScore == RateNextItem \/ CalculateScore

SpecScore == Init /\ [][NextScore]_vars

Rank ==
  \E n \in RankSizes, pattern \in RankPatterns :
    \E novel \in {S \in SUBSET (1..n) : Cardinality(S) <= MaxNovel} :
      LET items == candidateItems(n, novel, pattern)
      IN /\ ranking = <<>>
         /\ ranking' = <<[size |-> n,
                          sorted |-> sortByFinalScore(scoreItems(state, items)),
                          result |-> applyPersonalizedRanking(state, items)]>>
         /\ UNCHANGED <<state, now, score, resolveVars, storeVars>>

NextRank == LikeOrDislikeNextItem \/ Rank

SpecRank == Init /\ [][NextRank]_vars

(***************************************************************************)
(* Properties of the preference learning store                             *)
(***************************************************************************)
history == state.feedbackHistory

CountOf(h, feedback) == Cardinality({i \in DOMAIN h : h[i].feedback = feedback})

NoDuplicatePair(h) ==
  \A i, j \in DOMAIN h :
    (h[i].mediaId = h[j].mediaId /\ h[i].mediaType = h[j].mediaType) => i = j

\* C1 - Counter consistency: after any sequence of recordFeedback and
\* removeFeedback calls from the empty state, totalLikes is the number of
\* 'like' records of feedbackHistory and totalDislikes the number of
\* 'dislike' records.
C1_CounterConsistency ==
  /\ state.totalLikes = CountOf(history, "like")
  /\ state.totalDislikes = CountOf(history, "dislike")

\* A record that was replaced in place by a neutral one after a later like
\* was appended: the replacement took its old feedback off the counters.
C1_Witness ==
  /\ Len(history) = 2
  /\ history[1].timestamp > history[2].timestamp
  /\ history[1].feedback = "neutral"
  /\ history[2].feedback = "like"
  /\ state.totalLikes = 1
  /\ state.totalDislikes = 0

Pairs(h) == {<<h[i].mediaId, h[i].mediaType>> : i \in DOMAIN h}

\* C2 - Replacement, not duplication: feedbackHistory never holds two
\* records for one (mediaId, mediaType) pair; a step that records feedback
\* for a pair already in the history leaves the length unchanged, keeps
\* every position's pair and changes at most the record of one position; a
\* step that records a new pair appends its record at the end and leaves
\* the records before it unchanged.
C2_ReplacementNotDuplication ==
  /\ NoDuplicatePair(history)
  /\ [][LET h == state.feedbackHistory
            hNew == state'.feedbackHistory
        IN /\ NoDuplicatePair(hNew)
           /\ Pairs(hNew) = Pairs(h) =>
                /\ Len(hNew) = Len(h)
                /\ \A j \in DOMAIN h :
                     /\ hNew[j].mediaId = h[j].mediaId
                     /\ hNew[j].mediaType = h[j].mediaType
                /\ Cardinality({j \in DOMAIN h : hNew[j] # h[j]}) <= 1
           /\ (Pairs(h) \subseteq Pairs(hNew) /\ Pairs(hNew) # Pairs(h)) =>
                /\ Len(hNew) = Len(h) + 1
                /\ \A j \in DOMAIN h : hNew[j] = h[j]
                /\ <<hNew[Len(hNew)].mediaId, hNew[Len(hNew)].mediaType>> \notin Pairs(h)]_vars

\* The first of two records was recorded again later: it was replaced at
\* position 1 and the history still holds two records.
C2_Witness ==
  /\ Len(history) = 2
  /\ history[1].timestamp > history[2].timestamp
  /\ history[1].feedback = "dislike"

\* C3 - Weight clamping: with a fixed config, every weight of every
\* attributeWeights dimension lies within [-maxWeight, +maxWeight].
C3_WeightClamping ==
  \A d \in Dimensions :
    \A k \in DOMAIN state.attributeWeights[d] :
      /\ state.attributeWeights[d][k] <= state.config.maxWeight
      /\ state.attributeWeights[d][k] >= 0 - state.config.maxWeight

\* Several records touch one attribute key, their deltas add up to more
\* than maxWeight, and the stored weight is maxWeight.
C3_Witness ==
  \E d \in Dimensions :
    \E k \in DOMAIN state.attributeWeights[d] :
      /\ accumulate(history, state.config, state.lastUpdated, d, k) > state.config.maxWeight
      /\ state.attributeWeights[d][k] = state.config.maxWeight

(***************************************************************************)
(* Properties of the personalization scorer and ranker                     *)
(***************************************************************************)
\* C4 - Score bound: for every learning state, candidate and referenceScore
\* in 0..100, finalScore lies within [0, 100], below minFeedbackThreshold
\* and at or above it.
C4_ScoreBound ==
  score # <<>> =>
    /\ score[1].result.finalScore >= 0
    /\ score[1].result.finalScore <= 100 * ScoreUnit

\* The scored branch ran on a reference score of 100 with a positive
\* preference adjustment: the sum exceeds 100 and the result is 100.
C4_Witness ==
  /\ score # <<>>
  /\ state.totalLikes + state.totalDislikes >= state.config.minFeedbackThreshold
  /\ score[1].result.referenceScore = 100 * ScoreUnit
  /\ score[1].result.preferenceAdjustment > 0
  /\ score[1].result.finalScore = 100 * ScoreUnit

\* C9 - Learning suppressed early: whenever totalLikes + totalDislikes is
\* below minFeedbackThreshold, the result has preferenceAdjustment 0, a
\* finalScore equal to the referenceScore and preferenceConfidence 'low'.
C9_LearningSuppressedEarly ==
  (/\ score # <<>>
   /\ state.totalLikes + state.totalDislikes < state.config.minFeedbackThreshold) =>
    /\ score[1].result.preferenceAdjustment = 0
    /\ score[1].result.finalScore = score[1].result.referenceScore
    /\ score[1].result.preferenceConfidence = "low"

\* Below the threshold with learned weights on the candidate's attributes
\* (one feedback short of the threshold).
C9_Witness ==
  /\ score # <<>>
  /\ state.totalLikes + state.totalDislikes = state.config.minFeedbackThreshold - 1
  /\ score[1].candidate = 1
  /\ 28 \in DOMAIN state.attributeWeights["genres"]
  /\ state.attributeWeights["genres"][28] # 0

\* C10 - Diversity injection: for a user with at least 5 likes and the
\* default explorationFactor 0.15, when 12 candidates are ranked, the top 10
\* by finalScore carry no exploration bonus and the 11th is a novel item
\* carrying its exploration bonus, the 11th-ranked item is returned at
\* index 5.
C10_DiversityInjection ==
  (/\ ranking # <<>>
   /\ state.config.explorationFactor = DEFAULT_CONFIG.explorationFactor
   /\ state.totalLikes >= 5
   /\ ranking[1].size = 12
   /\ \A i \in 1..10 : ranking[1].sorted[i].personalizationScore.explorationBonus = 0
   /\ ranking[1].sorted[11].personalizationScore.explorationBonus > 0)
  => ranking[1].result[6].id = ranking[1].sorted[11].id

(***************************************************************************)
(* Strings.  A string is a sequence of one-character strings, so that      *)
(* toLowerCase, trim, includes and the regular expressions of              *)
(* normalizeTitle are computed character by character.                     *)
(***************************************************************************)
UpperCase == <<"A", "B", "C", "D", "E", "F", "G", "H", "I", "J", "K", "L", "M", "N", "O", "P", "Q", "R", "S", "T", "U", "V", "W", "X", "Y", "Z">>

LowerCase == <<"a", "b", "c", "d", "e", "f", "g", "h", "i", "j", "k", "l", "m", "n", "o", "p", "q", "r", "s", "t", "u", "v", "w", "x", "y", "z">>

Digits == {"0", "1", "2", "3", "4", "5", "6", "7", "8", "9"}

SetMin(I) == CHOOSE i \in I : \A j \in I : i <= j

SetMax(I) == CHOOSE i \in I : \A j \in I : i >= j

toLowerChar(c) ==
  IF \E i \in DOMAIN UpperCase : UpperCase[i] = c
    THEN LowerCase[CHOOSE i \in DOMAIN UpperCase : UpperCase[i] = c]
    ELSE c

toLowerCase(s) == [i \in DOMAIN s |-> toLowerChar(s[i])]

trim(s) ==
  LET I == {i \in DOMAIN s : s[i] # " "}
  IN IF I = {} THEN <<>> ELSE SubSeq(s, SetMin(I), SetMax(I))

\* String.prototype.includes
includes(s, sub) ==
  \E i \in 0..(Len(s) - Len(sub)) : SubSeq(s, i + 1, i + Len(sub)) = sub

startsWith(s, sub) == Len(sub) <= Len(s) /\ SubSeq(s, 1, Len(sub)) = sub

\* str.split(' ').filter(w => w.length > 0): the maximal runs of
\* characters other than the space, in order.
RECURSIVE split(_)
split(s) ==
  IF s = <<>> THEN <<>>
  ELSE IF Head(s) = " " THEN split(Tail(s))
  ELSE LET spaces == {i \in DOMAIN s : s[i] = " "}
           n == IF spaces = {} THEN Len(s) + 1 ELSE SetMin(spaces)
       IN <<SubSeq(s, 1, n - 1)>> \o split(SubSeq(s, n, Len(s)))

RECURSIVE join(_)
join(ws) ==
  IF ws = <<>> THEN <<>>
  ELSE IF Len(ws) = 1 THEN ws[1]
  ELSE ws[1] \o <<" ">> \o join(Tail(ws))

Articles == {<<"t", "h", "e">>, <<"a">>, <<"a", "n">>}

\* normalizeTitle: lower-case; drop every character outside [a-z0-9\s];
\* collapse runs of whitespace; delete the whole words the, a, an (their
\* surrounding spaces stay); trim.  After the first two steps the words are
\* the space-separated runs, so the result is the words joined by single
\* spaces with the articles blanked, minus leading and trailing blanks.
normalizeTitle(title) ==
  LET isKept(c) == c = " " \/ c \in Digits \/ (\E i \in DOMAIN LowerCase : LowerCase[i] = c)
      words == split(SelectSeq(toLowerCase(title), isKept))
      blanked == [i \in DOMAIN words |-> IF words[i] \in Articles THEN <<>> ELSE words[i]]
      kept == {i \in DOMAIN blanked : blanked[i] # <<>>}
  IN IF kept = {} THEN <<>> ELSE join(SubSeq(blanked, SetMin(kept), SetMax(kept)))

\* calculateSimilarity: Jaccard-like similarity on words, as the fraction
\* <<numerator, denominator>>.
calculateSimilarity(str1, str2) ==
  IF str1 = str2 THEN <<1, 1>>
  ELSE IF Len(str1) = 0 \/ Len(str2) = 0 THEN <<0, 1>>
  ELSE LET words1 == split(str1)
           words2Set == Range(split(str2))
           intersection == Cardinality({i \in DOMAIN words1 : words1[i] \in words2Set})
           union == Len(words1) + Cardinality(words2Set) - intersection
       IN IF union > 0 THEN <<intersection, union>> ELSE <<0, 1>>

(***************************************************************************)
(* The catalog: what searchMovies / searchTVShows can return.  A           *)
(* release_date is its year (0: no date) and whether it is January 1st,    *)
(* the one day whose local year differs from the year in the string west   *)
(* of UTC.  genre_ids are the catalog's genre numbers.                     *)
(***************************************************************************)
TitleBaahubali == <<"B", "a", "a", "h", "u", "b", "a", "l", "i">>

TitleBaahubaliTheBeginning == <<"B", "a", "a", "h", "u", "b", "a", "l", "i", ":", " ", "T", "h", "e", " ", "B", "e", "g", "i", "n", "n", "i", "n", "g">>

TitleBaahubaliNoColon == <<"b", "a", "a", "h", "u", "b", "a", "l", "i", " ", "t", "h", "e", " ", "b", "e", "g", "i", "n", "n", "i", "n", "g">>

TitleTemper == <<"T", "e", "m", "p", "e", "r">>

TitleTheTemper == <<"T", "h", "e", " ", "T", "e", "m", "p", "e", "r">>

TitleTemperTrap == <<"T", "e", "m", "p", "e", "r", " ", "T", "r", "a", "p">>

TitleBaahubaliLostLegends == <<"B", "a", "a", "h", "u", "b", "a", "l", "i", ":", " ", "T", "h", "e", " ", "L", "o", "s", "t", " ", "L", "e", "g", "e", "n", "d", "s">>

OverviewKingdom == <<"A", " ", "k", "i", "n", "g", "d", "o", "m", " ", "a", "t", " ", "w", "a", "r">>

OverviewYouth == <<"Y", "o", "u", "n", "g", " ", "a", "t", " ", "h", "e", "a", "r", "t">>

Movie(id) ==
  CASE id = 1 -> [id |-> 1, kind |-> "movie", title |-> TitleBaahubaliTheBeginning,
                  original_title |-> TitleBaahubaliTheBeginning,
                  release_date |-> [year |-> 2015, newYearsDay |-> FALSE],
                  vote_count |-> 20000, popularity |-> 30, original_language |-> "te",
                  overview |-> OverviewKingdom, genre_ids |-> <<28, 18>>]
    [] id = 2 -> [id |-> 2, kind |-> "movie", title |-> TitleTemper,
                  original_title |-> TitleTemper,
                  release_date |-> [year |-> 2015, newYearsDay |-> FALSE],
                  vote_count |-> 900, popularity |-> 15, original_language |-> "te",
                  overview |-> <<>>, genre_ids |-> <<28, 10749>>]
    [] id = 3 -> [id |-> 3, kind |-> "movie", title |-> TitleTemper,
                  original_title |-> TitleTemper,
                  release_date |-> [year |-> 2019, newYearsDay |-> FALSE],
                  vote_count |-> 400, popularity |-> 60, original_language |-> "en",
                  overview |-> OverviewYouth, genre_ids |-> <<18>>]
    [] id = 4 -> [id |-> 4, kind |-> "movie", title |-> TitleTemper,
                  original_title |-> <<>>,
                  release_date |-> [year |-> 2016, newYearsDay |-> TRUE],
                  vote_count |-> 350, popularity |-> 5, original_language |-> "de",
                  overview |-> <<>>, genre_ids |-> <<53>>]
    [] id = 5 -> [id |-> 5, kind |-> "movie", title |-> TitleTemper,
                  original_title |-> TitleTemper,
                  release_date |-> [year |-> 0, newYearsDay |-> FALSE],
                  vote_count |-> 300, popularity |-> 8, original_language |-> "hi",
                  overview |-> OverviewKingdom, genre_ids |-> <<18>>]
    [] id = 6 -> [id |-> 6, kind |-> "movie", title |-> TitleTheTemper,
                  original_title |-> TitleTheTemper,
                  release_date |-> [year |-> 2012, newYearsDay |-> FALSE],
                  vote_count |-> 50, popularity |-> 2, original_language |-> "ml",
                  overview |-> <<>>, genre_ids |-> <<>>]
    [] OTHER  -> [id |-> id, kind |-> "movie", title |-> TitleTemperTrap,
                  original_title |-> TitleTemper,
                  release_date |-> [year |-> 2014, newYearsDay |-> FALSE],
                  vote_count |-> 4000, popularity |-> 120, original_language |-> "en",
                  overview |-> <<>>, genre_ids |-> <<28, 12>>]

TVShow(id) ==
  CASE id = 1 -> [id |-> 1, kind |-> "tv", title |-> TitleTemper,
                  original_title |-> TitleTemper,
                  release_date |-> [year |-> 2015, newYearsDay |-> FALSE],
                  vote_count |-> 5000, popularity |-> 120, original_language |-> "ko",
                  overview |-> OverviewYouth, genre_ids |-> <<18, 9648>>]
    [] OTHER  -> [id |-> 100 + id, kind |-> "tv", title |-> TitleBaahubaliLostLegends,
                  original_title |-> TitleBaahubaliLostLegends,
                  release_date |-> [year |-> 2017, newYearsDay |-> FALSE],
                  vote_count |-> 80, popularity |-> 10, original_language |-> "hi",
                  overview |-> OverviewKingdom, genre_ids |-> <<16>>]

\* parseInt(releaseDate.substring(0, 4), 10)
parsedYear(item) == item.release_date.year

\* new Date(releaseDate).getFullYear(): the local year of UTC midnight of
\* the date, the year before for January 1st west of UTC; 0 stands for null.
localYear(item, westOfUTC) ==
  IF item.release_date.year = 0 THEN 0
  ELSE IF item.release_date.newYearsDay /\ westOfUTC THEN item.release_date.year - 1
  ELSE item.release_date.year

(***************************************************************************)
(* Confidence scorer (confidenceScoring)                                   *)
(***************************************************************************)
CONFIDENCE_THRESHOLDS == [exact |-> 90, high |-> 75, medium |-> 55, low |-> 35]

POPULARITY_THRESHOLDS == [blockbuster |-> 10000, popular |-> 3000, known |-> 500, obscure |-> 0]

popularLanguages == {"en", "hi", "ko", "ja", "es", "fr", "te", "ta"}

\* The fuzzy and low tiers of calculateTitleMatch, from the similarity as
\* a fraction: above 0.7 Math.round(similarity * 30), else
\* Math.round(similarity * 20).
fuzzyTitleMatch(similarity) ==
  IF 10 * similarity[1] > 7 * similarity[2]
    THEN [score |-> MathRound(30 * similarity[1], similarity[2]), type |-> "fuzzy"]
    ELSE [score |-> MathRound(20 * similarity[1], similarity[2]), type |-> "fuzzy"]

\* The partial tier: Math.round(25 + ratio * 10), ratio = shorter / longer.
partialTitleMatch(shorter, longer) ==
  [score |-> MathRound(25 * longer + 10 * shorter, longer), type |-> "partial"]

\* The tiers of calculateTitleMatch below the exact one, from the
\* lower-cased strings and their normalizations.
normalizedTitleMatch(queryLower, titleLower, normalizedQuery, normalizedTitle, normalizedOriginal) ==
  IF normalizedQuery = normalizedTitle \/ normalizedQuery = normalizedOriginal
    THEN [score |-> 38, type |-> "case-insensitive"]
  ELSE IF includes(titleLower, queryLower) \/ includes(queryLower, titleLower)
    THEN partialTitleMatch(Min(Len(queryLower), Len(titleLower)),
                           Max(Len(queryLower), Len(titleLower)))
  ELSE fuzzyTitleMatch(calculateSimilarity(normalizedQuery, normalizedTitle))

loweredTitleMatch(queryLower, titleLower, originalLower) ==
  IF queryLower = titleLower \/ queryLower = originalLower
    THEN [score |-> 40, type |-> "exact"]
    ELSE normalizedTitleMatch(queryLower, titleLower, normalizeTitle(queryLower),
                              normalizeTitle(titleLower), normalizeTitle(originalLower))

\* originalTitle?.toLowerCase().trim() || titleLower
originalOrTitle(originalLower, titleLower) ==
  IF originalLower # <<>> THEN originalLower ELSE titleLower

calculateTitleMatch(query, match) ==
  loweredTitleMatch(trim(toLowerCase(query)), trim(toLowerCase(match.title)),
                    originalOrTitle(trim(toLowerCase(match.original_title)),
                                    trim(toLowerCase(match.title))))

calculateYearMatchNearBonus(queryYear, yearProvided, match) ==
  IF ~yearProvided \/ queryYear = 0 THEN [score |-> 10, type |-> "not-provided"]
  ELSE IF match.release_date.year = 0 THEN [score |-> 5, type |-> "none"]
  ELSE LET yearDiff == Abs(parsedYear(match) - queryYear)
       IN IF yearDiff = 0 THEN [score |-> 20, type |-> "exact"]
          ELSE IF yearDiff = 1 THEN [score |-> 10, type |-> "close"]
          ELSE IF yearDiff <= 3 THEN [score |-> 15, type |-> "close"]
          ELSE [score |-> 3, type |-> "none"]

calculateYearMatch(queryYear, yearProvided, match) ==
  IF ~yearProvided \/ queryYear = 0 THEN [score |-> 10, type |-> "not-provided"]
  ELSE IF match.release_date.year = 0 THEN [score |-> 5, type |-> "none"]
  ELSE LET yearDiff == Abs(parsedYear(match) - queryYear)
       IN IF yearDiff = 0 THEN [score |-> 20, type |-> "exact"]
          ELSE IF yearDiff = 1 THEN [score |-> 15, type |-> "close"]
          ELSE IF yearDiff <= 3 THEN [score |-> 10, type |-> "close"]
          ELSE [score |-> 3, type |-> "none"]

calculatePopularity(match) ==
  IF match.vote_count >= POPULARITY_THRESHOLDS.blockbuster \/ match.popularity >= 100
    THEN [score |-> 20, tier |-> "blockbuster"]
  ELSE IF match.vote_count >= POPULARITY_THRESHOLDS.popular \/ match.popularity >= 50
    THEN [score |-> 16, tier |-> "popular"]
  ELSE IF match.vote_count >= POPULARITY_THRESHOLDS.known \/ match.popularity >= 20
    THEN [score |-> 12, tier |-> "known"]
  ELSE [score |-> 6, tier |-> "obscure"]

\* An alternative is strong with at least 100 votes and at least 30% of
\* the best match's votes.
isStrongAlternative(c, bestMatch) ==
  /\ c.id # bestMatch.id
  /\ c.vote_count >= 100
  /\ 10 * c.vote_count >= 3 * bestMatch.vote_count

calculateUniqueness(candidates, bestMatch) ==
  LET alternativeCount ==
        Cardinality({i \in DOMAIN candidates : isStrongAlternative(candidates[i], bestMatch)})
  IN IF alternativeCount = 0 THEN [score |-> 10, alternativeCount |-> 0]
     ELSE IF alternativeCount = 1 THEN [score |-> 7, alternativeCount |-> 1]
     ELSE IF alternativeCount <= 3 THEN [score |-> 4, alternativeCount |-> alternativeCount]
     ELSE [score |-> 2, alternativeCount |-> alternativeCount]

calculateRelevance(match) ==
  IF match.original_language \in popularLanguages THEN 10 ELSE 6

calculateFactors(context, match) ==
  LET titleResult == calculateTitleMatch(context.extractedTitle, match)
      yearResult == calculateYearMatch(context.extractedYear, context.yearProvided, match)
      popularityResult == calculatePopularity(match)
      uniquenessResult == calculateUniqueness(context.candidates, match)
  IN [titleMatch |-> titleResult.score, titleMatchType |-> titleResult.type,
      yearMatch |-> yearResult.score, yearMatchType |-> yearResult.type,
      popularity |-> popularityResult.score, popularityTier |-> popularityResult.tier,
      uniqueness |-> uniquenessResult.score,
      alternativeCount |-> uniquenessResult.alternativeCount,
      relevance |-> calculateRelevance(match)]

determineLevelNoOverride(totalScore, factors) ==
  IF totalScore >= CONFIDENCE_THRESHOLDS.exact THEN "exact"
  ELSE IF totalScore >= CONFIDENCE_THRESHOLDS.high THEN "high"
  ELSE IF totalScore >= CONFIDENCE_THRESHOLDS.medium THEN "medium"
  ELSE IF totalScore >= CONFIDENCE_THRESHOLDS.low THEN "low"
  ELSE "ambiguous"

determineLevelAnyTitle(totalScore, factors) ==
  IF factors.titleMatchType = "exact" /\ factors.yearMatchType = "exact" THEN "exact"
  ELSE IF factors.alternativeCount >= 3 THEN "ambiguous"
  ELSE determineLevelNoOverride(totalScore, factors)

determineLevelPartialExact(totalScore, factors) ==
  IF factors.titleMatchType \in {"exact", "partial"} /\ factors.yearMatchType = "exact"
    THEN "exact"
  ELSE IF factors.alternativeCount >= 3 /\ factors.titleMatchType # "exact" THEN "ambiguous"
  ELSE determineLevelNoOverride(totalScore, factors)

determineLevel(totalScore, factors) ==
  IF factors.titleMatchType = "exact" /\ factors.yearMatchType = "exact" THEN "exact"
  ELSE IF factors.alternativeCount >= 3 /\ factors.titleMatchType # "exact" THEN "ambiguous"
  ELSE IF totalScore >= CONFIDENCE_THRESHOLDS.exact THEN "exact"
  ELSE IF totalScore >= CONFIDENCE_THRESHOLDS.high THEN "high"
  ELSE IF totalScore >= CONFIDENCE_THRESHOLDS.medium THEN "medium"
  ELSE IF totalScore >= CONFIDENCE_THRESHOLDS.low THEN "low"
  ELSE "ambiguous"

\* A message is its kind and what it names: the match it asks about or the
\* numbered options it lists.
generateMediumConfidenceNote(bestMatch) ==
  [kind |-> "medium-note", about |-> bestMatch, options |-> <<>>]

generateLowConfidenceQuestion(bestMatch) ==
  [kind |-> "did-you-mean", about |-> bestMatch, options |-> <<>>]

generateAmbiguousQuestion(candidates) ==
  LET topCandidates == Slice(candidates, 0, 4)
  IN IF Len(topCandidates) = 0
       THEN [kind |-> "check-spelling", about |-> <<>>, options |-> <<>>]
       ELSE [kind |-> "which-one", about |-> <<>>,
             options |-> [i \in DOMAIN topCandidates |-> topCandidates[i].id]]

generateAlternativesUnfiltered(candidates, bestMatch) ==
  LET shown == Slice(candidates, 0, 5)
  IN [i \in DOMAIN shown |->
        [id |-> shown[i].id, type |-> shown[i].kind,
         year |-> parsedYear(shown[i]), language |-> shown[i].original_language,
         confidence |-> MathRound(shown[i].vote_count, 100)]]

\* bestMatch is <<>> (null) or <<match>>.
generateAlternatives(candidates, bestMatch) ==
  LET notBest(c) == bestMatch = <<>> \/ c.id # bestMatch[1].id
      shown == Slice(SelectSeq(candidates, notBest), 0, 4)
  IN [i \in DOMAIN shown |->
        [id |-> shown[i].id, type |-> shown[i].kind,
         year |-> parsedYear(shown[i]), language |-> shown[i].original_language,
         confidence |-> MathRound(shown[i].vote_count, 100)]]

\* clarificationMessage and alternatives are <<>> when the field is absent.
determineBehavior(level, factors, context) ==
  CASE level = "exact" ->
         [shouldProceed |-> TRUE, shouldClarify |-> FALSE,
          recommendationStrictness |-> "strict", showConfidenceIndicator |-> FALSE,
          action |-> "recommend", clarificationMessage |-> <<>>, alternatives |-> <<>>]
    [] level = "high" ->
         [shouldProceed |-> TRUE, shouldClarify |-> FALSE,
          recommendationStrictness |-> "strict", showConfidenceIndicator |-> TRUE,
          action |-> "recommend", clarificationMessage |-> <<>>, alternatives |-> <<>>]
    [] level = "medium" ->
         [shouldProceed |-> TRUE, shouldClarify |-> FALSE,
          recommendationStrictness |-> "moderate", showConfidenceIndicator |-> TRUE,
          action |-> "recommend",
          clarificationMessage |-> <<generateMediumConfidenceNote(context.bestMatch)>>,
          alternatives |-> <<>>]
    [] level = "low" ->
         [shouldProceed |-> TRUE, shouldClarify |-> TRUE,
          recommendationStrictness |-> "flexible", showConfidenceIndicator |-> TRUE,
          action |-> "confirm",
          clarificationMessage |-> <<generateLowConfidenceQuestion(context.bestMatch)>>,
          alternatives |-> <<generateAlternatives(context.candidates, context.bestMatch)>>]
    [] level = "ambiguous" ->
         [shouldProceed |-> FALSE, shouldClarify |-> TRUE,
          recommendationStrictness |-> "flexible", showConfidenceIndicator |-> TRUE,
          action |-> "clarify",
          clarificationMessage |-> <<generateAmbiguousQuestion(context.candidates)>>,
          alternatives |-> <<generateAlternatives(context.candidates, context.bestMatch)>>]

createNoMatchScore ==
  [level |-> "ambiguous", score |-> 0,
   factors |-> [titleMatch |-> 0, titleMatchType |-> "fuzzy",
                yearMatch |-> 0, yearMatchType |-> "none",
                popularity |-> 0, popularityTier |-> "obscure",
                uniqueness |-> 0, alternativeCount |-> 0, relevance |-> 0],
   behavior |-> [shouldProceed |-> FALSE, shouldClarify |-> TRUE,
                 recommendationStrictness |-> "flexible",
                 showConfidenceIndicator |-> TRUE, action |-> "reject",
                 clarificationMessage |->
                   <<[kind |-> "check-spelling", about |-> <<>>, options |-> <<>>]>>,
                 alternatives |-> <<>>]]

\* The result for a level: level, score, factors and behavior.
scoreAtLevel(level, totalScore, factors, context) ==
  [level |-> level, score |-> totalScore, factors |-> factors,
   behavior |-> determineBehavior(level, factors, context)]

scoreOfTotal(totalScore, factors, context) ==
  scoreAtLevel(determineLevel(totalScore, factors), totalScore, factors, context)

scoreOfFactorsNoRelevance(factors, context) ==
  scoreOfTotal(factors.titleMatch + factors.yearMatch + factors.popularity
                 + factors.uniqueness,
               factors, context)

scoreOfFactors(factors, context) ==
  scoreOfTotal(factors.titleMatch + factors.yearMatch + factors.popularity
                 + factors.uniqueness + factors.relevance,
               factors, context)

calculateConfidenceScoreNullOnly(context) ==
  IF context.bestMatch = <<>> THEN createNoMatchScore
  ELSE scoreOfFactors(calculateFactors(context, context.bestMatch[1]), context)

\* context: extractedTitle, extractedYear (0: null), yearProvided,
\* candidates, bestMatch (<<>>: null).  The explanation and displayLabel
\* texts are functions of level and factors and are left out of the result.
calculateConfidenceScore(context) ==
  IF context.bestMatch = <<>> \/ Len(context.candidates) = 0 THEN createNoMatchScore
  ELSE scoreOfFactors(calculateFactors(context, context.bestMatch[1]), context)

(***************************************************************************)
(* Reference resolver (referenceMovieAnalyzer)                             *)
(***************************************************************************)
\* First result whose title equals the search title, else the first whose
\* title contains it, among those whose local release year is the year;
\* <<>> when there is none.
findBestTitleMatchWithYear(results, searchTitle, year, westOfUTC) ==
  LET normalizedSearch == trim(toLowerCase(searchTitle))
      exactHits == {i \in DOMAIN results :
                      /\ toLowerCase(results[i].title) = normalizedSearch
                      /\ localYear(results[i], westOfUTC) = year}
      partialHits == {i \in DOMAIN results :
                        /\ includes(toLowerCase(results[i].title), normalizedSearch)
                        /\ localYear(results[i], westOfUTC) = year}
  IN IF exactHits # {} THEN <<results[SetMin(exactHits)]>>
     ELSE IF partialHits # {} THEN <<results[SetMin(partialHits)]>>
     ELSE <<>>

titleTier(titleLower, normalizedSearch) ==
  IF titleLower = normalizedSearch THEN [score |-> 100, confidence |-> "high"]
  ELSE IF startsWith(titleLower, normalizedSearch) THEN [score |-> 80, confidence |-> "high"]
  ELSE IF includes(titleLower, normalizedSearch) THEN [score |-> 60, confidence |-> "medium"]
  ELSE IF includes(normalizedSearch, titleLower) THEN [score |-> 40, confidence |-> "medium"]
  ELSE [score |-> 20, confidence |-> "low"]

scoreResult(result, normalizedSearch, preferredYear, westOfUTC) ==
  LET tier == titleTier(toLowerCase(result.title), normalizedSearch)
      resultYear == localYear(result, westOfUTC)
      yearKnown == preferredYear # 0 /\ resultYear # 0
      yearBonus == IF ~yearKnown THEN 0
                   ELSE IF resultYear = preferredYear THEN 30
                   ELSE IF Abs(resultYear - preferredYear) <= 1 THEN 15
                   ELSE IF Abs(resultYear - preferredYear) <= 3 THEN 5
                   ELSE 0
  IN [score |-> tier.score + yearBonus
                  + (IF result.popularity > 50 THEN 10 ELSE 0)
                  + (IF result.popularity > 100 THEN 10 ELSE 0)
                  + (IF result.vote_count > 1000 THEN 5 ELSE 0)
                  + (IF result.vote_count > 5000 THEN 5 ELSE 0),
      confidence |-> IF yearKnown /\ resultYear = preferredYear /\ tier.confidence = "medium"
                       THEN "high" ELSE tier.confidence]

\* results is not empty here (the caller tests results.length > 0).
findBestTitleMatch(results, searchTitle, preferredYear, westOfUTC) ==
  LET normalizedSearch == trim(toLowerCase(searchTitle))
      scored == [i \in DOMAIN results |->
                   scoreResult(results[i], normalizedSearch, preferredYear, westOfUTC)]
      \* scored.sort descending (stable): the first result with the top score
      first == CHOOSE i \in DOMAIN scored :
                 /\ \A j \in DOMAIN scored : scored[j].score <= scored[i].score
                 /\ \A j \in DOMAIN scored : scored[j].score = scored[i].score => i <= j
  IN IF scored[first].score > 20
       THEN [match |-> <<results[first]>>, confidence |-> scored[first].confidence]
       ELSE [match |-> <<results[1]>>, confidence |-> "low"]

noReference == [movie |-> <<>>, type |-> "movie", confidence |-> "low"]

\* One search of findReferenceMovie over the results of one media type:
\* <<>> when it returns nothing, so that the caller goes on.
matchIn(results, type, title, year, westOfUTC) ==
  IF Len(results) = 0 THEN <<>>
  ELSE LET exactYearMatch == IF year # 0
                               THEN findBestTitleMatchWithYear(results, title, year, westOfUTC)
                               ELSE <<>>
       IN IF exactYearMatch # <<>>
            THEN <<[movie |-> exactYearMatch, type |-> type, confidence |-> "exact"]>>
            ELSE LET bestMatch == findBestTitleMatch(results, title, year, westOfUTC)
                 IN <<[movie |-> bestMatch.match, type |-> type,
                       confidence |-> bestMatch.confidence]>>

\* failing names the search call that throws ("none", "movies", "tv"); the
\* catch block returns noReference.
findReferenceMovie(title, preferMovies, year, movieResults, tvResults, failing, westOfUTC) ==
  IF preferMovies /\ failing = "movies" THEN noReference
  ELSE LET movieMatch == IF preferMovies
                           THEN matchIn(movieResults, "movie", title, year, westOfUTC)
                           ELSE <<>>
       IN IF movieMatch # <<>> THEN movieMatch[1]
          ELSE IF failing = "tv" THEN noReference
          ELSE LET tvMatch == matchIn(tvResults, "tv", title, year, westOfUTC)
               IN IF tvMatch # <<>> THEN tvMatch[1]
                  ELSE IF preferMovies /\ Len(movieResults) > 0
                    THEN [movie |-> <<movieResults[1]>>, type |-> "movie", confidence |-> "low"]
                  ELSE noReference

(***************************************************************************)
(* A resolution: the catalog answers the search, the resolver picks the    *)
(* reference, the confidence scorer rates a match                          *)
(***************************************************************************)
MaxMovieResults == 6
MaxTVResults == 1

QueryTitles == {TitleBaahubali, TitleTemper, TitleBaahubaliNoColon}

\* 0: the query gives no year.
QueryYears == {0, 2015}

MovieCatalog == [i \in 1..MaxMovieResults |-> Movie(i)]

TVCatalog == [i \in 1..MaxTVResults |-> TVShow(i)]

\* The result lists a search can answer with: the sublists of a catalog,
\* in catalog order.
Sublists(items) ==
  {[k \in 1..Cardinality(I) |->
      items[CHOOSE i \in I : Cardinality({j \in I : j <= i}) = k]] : I \in SUBSET DOMAIN items}

Search ==
  /\ search = <<>>
  /\ analysis = <<>>
  /\ \E title \in QueryTitles, year \in QueryYears :
       \E movieResults \in Sublists(MovieCatalog), tvResults \in Sublists(TVCatalog) :
         search' = <<[title |-> title, year |-> year, hasYear |-> year # 0,
                      movieResults |-> movieResults, tvResults |-> tvResults]>>
  /\ UNCHANGED <<learnVars, reference, confidence, determined, storeVars>>

FindReference ==
  /\ search # <<>>
  /\ reference = <<>>
  /\ confidence = <<>>
  /\ \E preferMovies \in BOOLEAN, failing \in {"none", "movies", "tv"}, westOfUTC \in BOOLEAN :
       reference' = <<[failing |-> failing, preferMovies |-> preferMovies,
                       result |-> findReferenceMovie(
                                    search[1].title, preferMovies, search[1].year,
                                    search[1].movieResults, search[1].tvResults,
                                    failing, westOfUTC)]>>
  /\ UNCHANGED <<learnVars, search, confidence, determined, storeVars>>

contextOf(candidates, bestMatch) ==
  [extractedTitle |-> search[1].title, extractedYear |-> search[1].year,
   yearProvided |-> search[1].hasYear, candidates |-> candidates, bestMatch |-> bestMatch]

\* The pipeline: the scorer rates the resolver's pick among the results of
\* the search it came from.
ScoreReference ==
  /\ reference # <<>>
  /\ confidence = <<>>
  /\ LET context == contextOf(IF reference[1].result.type = "movie"
                                THEN search[1].movieResults ELSE search[1].tvResults,
                              reference[1].result.movie)
     IN confidence' = <<[context |-> context, result |-> calculateConfidenceScore(context)]>>
  /\ UNCHANGED <<learnVars, search, reference, determined, storeVars>>

\* A direct call of the exported scorer: any movie result, or none, as the
\* best match, with the movie results or with no candidates at all.
ScoreAnyMatch ==
  /\ search # <<>>
  /\ reference = <<>>
  /\ confidence = <<>>
  /\ \E bestMatch \in {<<>>} \cup {<<search[1].movieResults[i]>> : i \in DOMAIN search[1].movieResults},
        candidates \in {search[1].movieResults, <<>>} :
       LET context == contextOf(candidates, bestMatch)
       IN confidence' = <<[context |-> context, result |-> calculateConfidenceScore(context)]>>
  /\ UNCHANGED <<learnVars, search, reference, determined, storeVars>>

NextResolve == Search \/ FindReference \/ ScoreReference \/ ScoreAnyMatch

SpecResolve == InitDefault /\ [][NextResolve]_vars

(***************************************************************************)
(* determineLevel over every score and factor combination                  *)
(***************************************************************************)
MaxTotalScore == 100
MaxAlternativeCount == 5

TitleMatchTypes == {"exact", "case-insensitive", "partial", "fuzzy"}

YearMatchTypes == {"exact", "close", "none", "not-provided"}

DetermineLevel ==
  /\ determined = <<>>
  /\ \E totalScore \in 0..MaxTotalScore, titleMatchType \in TitleMatchTypes,
        yearMatchType \in YearMatchTypes, alternativeCount \in 0..MaxAlternativeCount :
       LET factors == [titleMatchType |-> titleMatchType, yearMatchType |-> yearMatchType,
                       alternativeCount |-> alternativeCount]
       IN determined' = <<[score |-> totalScore, factors |-> factors,
                           level |-> determineLevel(totalScore, factors)]>>
  /\ UNCHANGED <<learnVars, search, reference, confidence, storeVars>>

SpecLevel == Init /\ [][DetermineLevel]_vars

(***************************************************************************)
(* Properties of the confidence scorer and the resolver                    *)
(***************************************************************************)
result == confidence[1].result

context == confidence[1].context

\* C5 - Behaviour fixed by the level: for every result of
\* calculateConfidenceScore, shouldProceed is false exactly when the level
\* is 'ambiguous', shouldClarify is true exactly when the level is 'low' or
\* 'ambiguous', and attached alternatives are at most 4 and none of them is
\* the best match.
C5_BehaviorFixedByLevel ==
  confidence # <<>> =>
    /\ result.behavior.shouldProceed = (result.level # "ambiguous")
    /\ result.behavior.shouldClarify = (result.level \in {"low", "ambiguous"})
    /\ result.behavior.alternatives # <<>> =>
         /\ Len(result.behavior.alternatives[1]) <= 4
         /\ \A i \in DOMAIN result.behavior.alternatives[1] :
              context.bestMatch # <<>> =>
                result.behavior.alternatives[1][i].id # context.bestMatch[1].id

\* A low-confidence result whose best match is one of six candidates: four
\* of the five others are attached as alternatives.
C5_Witness ==
  /\ confidence # <<>>
  /\ context.bestMatch # <<>>
  /\ Len(context.candidates) = 6
  /\ result.level = "low"
  /\ result.behavior.shouldProceed
  /\ result.behavior.shouldClarify
  /\ result.behavior.alternatives # <<>>
  /\ Len(result.behavior.alternatives[1]) = 4

\* C6 - Level mapping: exact title and exact year give 'exact' whatever the
\* score; otherwise 3 or more strong alternatives with a non-exact title
\* give 'ambiguous' whatever the score; otherwise the level is exact, high,
\* medium or low from 90, 75, 55 or 35 up, and 'ambiguous' below 35.
C6_LevelMapping ==
  determined # <<>> =>
    determined[1].level =
      (IF /\ determined[1].factors.titleMatchType = "exact"
          /\ determined[1].factors.yearMatchType = "exact" THEN "exact"
       ELSE IF /\ determined[1].factors.alternativeCount >= 3
               /\ determined[1].factors.titleMatchType # "exact" THEN "ambiguous"
       ELSE IF determined[1].score >= 90 THEN "exact"
       ELSE IF determined[1].score >= 75 THEN "high"
       ELSE IF determined[1].score >= 55 THEN "medium"
       ELSE IF determined[1].score >= 35 THEN "low"
       ELSE "ambiguous")

\* The second override at work: a score of 95 with 3 strong alternatives and
\* a partial title match is 'ambiguous'.
C6_Witness ==
  /\ determined # <<>>
  /\ determined[1].score = 95
  /\ determined[1].factors.alternativeCount = 3
  /\ determined[1].factors.titleMatchType = "partial"
  /\ determined[1].level = "ambiguous"

\* The query "movies like Baahubali (2015)" against a catalog holding only
\* "Baahubali: The Beginning" (2015, 20,000 votes), resolved as
\* analyzeReferenceFromQuery resolves it (preferMovies true) and scored.
BaahubaliScenario ==
  /\ search # <<>>
  /\ reference # <<>>
  /\ confidence # <<>>
  /\ search[1].title = TitleBaahubali
  /\ search[1].year = 2015
  /\ search[1].movieResults = <<Movie(1)>>
  /\ search[1].tvResults = <<>>
  /\ reference[1].preferMovies
  /\ reference[1].failing = "none"

\* C7 as stated - Baahubali scenario: the resolver returns the candidate
\* and the scorer returns level 'exact', shouldProceed true, action
\* 'recommend' and no clarification message.
C7_BaahubaliExact ==
  BaahubaliScenario =>
    /\ reference[1].result.movie = <<Movie(1)>>
    /\ result.level = "exact"
    /\ result.behavior.shouldProceed
    /\ result.behavior.action = "recommend"
    /\ result.behavior.clarificationMessage = <<>>

\* C7 amended - Baahubali scenario: the resolver returns the candidate and
\* the scorer returns level 'high' (the title match is partial and the
\* score is 89, below 90), shouldProceed true, action 'recommend' and no
\* clarification message.
C7_BaahubaliHigh ==
  BaahubaliScenario =>
    /\ reference[1].result.movie = <<Movie(1)>>
    /\ result.factors.titleMatchType = "partial"
    /\ result.score = 89
    /\ result.level = "high"
    /\ result.behavior.shouldProceed
    /\ result.behavior.action = "recommend"
    /\ result.behavior.clarificationMessage = <<>>

C7_Witness ==
  /\ BaahubaliScenario
  /\ context.bestMatch = <<Movie(1)>>
  /\ reference[1].result.confidence = "exact"
  /\ result.factors.yearMatchType = "exact"

\* The query "movies like Temper" against 4 candidates all titled "Temper",
\* each with more than 100 votes and each of the other three a strong
\* alternative to the best match, scored with no year given.
TemperScenario ==
  /\ confidence # <<>>
  /\ ~context.yearProvided
  /\ Len(context.candidates) = 4
  /\ \A i \in DOMAIN context.candidates :
       /\ context.candidates[i].title = context.extractedTitle
       /\ context.candidates[i].vote_count > 100
  /\ context.bestMatch # <<>>
  /\ \E i \in DOMAIN context.candidates : context.candidates[i] = context.bestMatch[1]
  /\ \A i \in DOMAIN context.candidates :
       context.candidates[i].id # context.bestMatch[1].id =>
         10 * context.candidates[i].vote_count >= 3 * context.bestMatch[1].vote_count

\* C8 as stated - Temper scenario: the scorer returns level 'ambiguous',
\* shouldProceed false and a clarification message listing at most 4
\* numbered candidates.
C8_TemperAmbiguous ==
  TemperScenario =>
    /\ result.level = "ambiguous"
    /\ ~result.behavior.shouldProceed
    /\ result.behavior.clarificationMessage # <<>>
    /\ result.behavior.clarificationMessage[1].kind = "which-one"
    /\ Len(result.behavior.clarificationMessage[1].options) <= 4

\* C8 amended - Temper scenario: the title match is exact, so the 3 strong
\* alternatives do not make the result ambiguous; the scorer returns level
\* 'medium' or 'high' (a score from 60 to 84), shouldProceed true,
\* shouldClarify false and no list of numbered candidates.
C8_TemperProceeds ==
  TemperScenario =>
    /\ result.factors.titleMatchType = "exact"
    /\ result.factors.alternativeCount = 3
    /\ result.score >= 60
    /\ result.score <= 84
    /\ result.level \in {"medium", "high"}
    /\ result.behavior.shouldProceed
    /\ ~result.behavior.shouldClarify
    /\ \/ result.behavior.clarificationMessage = <<>>
       \/ result.behavior.clarificationMessage[1].kind = "medium-note"
    /\ result.behavior.alternatives = <<>>

\* The scenario reached through the resolver, which picks one of the four.
C8_Witness ==
  /\ TemperScenario
  /\ reference # <<>>
  /\ reference[1].result.movie = context.bestMatch
  /\ context.extractedTitle = TitleTemper
  /\ result.factors.alternativeCount = 3
(***************************************************************************)
(* The merge session: a signed-in user's state (primary) built by rating   *)
(* catalog movies, merged with a guest state (secondary) as                *)
(* migrateGuestToUser does                                                 *)
(***************************************************************************)
MaxPrimaryHistory == 2
MaxGuestHistory == 2

\* What the guest rated: one item the user may have rated too, and one the
\* user has not.
GuestItems == {<<1, "movie">>, <<NovelId, "movie">>}

\* The guest's ratings in order, no item twice.
GuestRatings ==
  UNION {{ratings \in [1..n -> GuestItems \X FeedbackType] :
            \A i, j \in 1..n : ratings[i][1] = ratings[j][1] => i = j} :
         n \in 0..MaxGuestHistory}

RECURSIVE recordAll(_, _, _)
recordAll(st, ratings, t) ==
  IF ratings = <<>> THEN st
  ELSE recordAll(recordFeedback(st, MovieAttributes(ratings[1][1][1], ratings[1][1][2]),
                                ratings[1][2], t),
                 Tail(ratings), t)

\* The guest state in storage: recorded at clock reading 0 under the
\* default configuration.
GuestState(ratings) == recordAll(createEmptyState(DEFAULT_CONFIG, 0), ratings, 0)

RateBeforeMerge ==
  \E feedback \in FeedbackType :
    /\ merged = <<>>
    /\ Len(state.feedbackHistory) < MaxPrimaryHistory
    /\ state' = recordFeedback(
                  state, MovieAttributes(Len(state.feedbackHistory) + 1, "movie"),
                  feedback, now)
    /\ latest' = recorded(latest, <<Len(state.feedbackHistory) + 1, "movie">>, feedback)
    /\ UNCHANGED <<now, score, ranking, resolveVars, probeVars, syncVars>>

TickBeforeMerge ==
  /\ merged = <<>>
  /\ now < MaxNow
  /\ now' = now + 1
  /\ UNCHANGED <<state, score, ranking, resolveVars, storeVars>>

Merge ==
  /\ merged = <<>>
  /\ \E ratings \in GuestRatings :
       merged' = <<[primary |-> state, secondary |-> GuestState(ratings), at |-> now,
                    result |-> mergeLearningStates(state, GuestState(ratings), now)]>>
  /\ UNCHANGED <<learnVars, resolveVars, compared, analysis, eraCall, latest, syncVars>>

NextMerge == RateBeforeMerge \/ TickBeforeMerge \/ Merge

SpecMerge == Init /\ [][NextMerge]_vars

(***************************************************************************)
(* Factor functions called twice: calculateYearMatch on two release years  *)
(* of one match, calculateUniqueness on two candidate lists for one best   *)
(* match                                                                   *)
(***************************************************************************)
MaxYearDiff == 5

\* The match with another release year.
releasedIn(match, year) == [match EXCEPT !.release_date.year = year]

CompareYearMatch ==
  /\ compared = <<>>
  /\ \E queryYear \in QueryYears \ {0}, match \in {Movie(1), Movie(4)} :
       \E year1, year2 \in (queryYear - MaxYearDiff)..(queryYear + MaxYearDiff) :
         compared' = <<[of |-> "yearMatch",
                        inputs |-> <<Abs(year1 - queryYear), Abs(year2 - queryYear)>>,
                        scores |-> <<calculateYearMatch(queryYear, TRUE, releasedIn(match, year1)).score,
                                     calculateYearMatch(queryYear, TRUE, releasedIn(match, year2)).score>>]>>
  /\ UNCHANGED <<learnVars, resolveVars, merged, analysis, eraCall, latest, syncVars>>

\* The strong alternatives as the specification words them: other
\* candidates with at least 100 votes and at least 30% of the best match's
\* votes.
strongAlternatives(candidates, bestMatch) ==
  Cardinality({i \in DOMAIN candidates :
                 /\ candidates[i].id # bestMatch.id
                 /\ candidates[i].vote_count >= 100
                 /\ 10 * candidates[i].vote_count >= 3 * bestMatch.vote_count})

CompareUniqueness ==
  /\ compared = <<>>
  /\ \E bestMatch \in Range(MovieCatalog) :
       \E candidates1, candidates2 \in Sublists(MovieCatalog) :
         compared' = <<[of |-> "uniqueness",
                        inputs |-> <<strongAlternatives(candidates1, bestMatch),
                                     strongAlternatives(candidates2, bestMatch)>>,
                        scores |-> <<calculateUniqueness(candidates1, bestMatch).score,
                                     calculateUniqueness(candidates2, bestMatch).score>>]>>
  /\ UNCHANGED <<learnVars, resolveVars, merged, analysis, eraCall, latest, syncVars>>

NextCompare == CompareYearMatch \/ CompareUniqueness

SpecCompare == Init /\ [][NextCompare]_vars

C12_Merge ==
  merged # <<>> =>
    /\ Pairs(merged[1].result.feedbackHistory)
         = Pairs(merged[1].primary.feedbackHistory) \cup Pairs(merged[1].secondary.feedbackHistory)
    /\ NoDuplicatePair(merged[1].result.feedbackHistory)
    /\ \A i \in DOMAIN merged[1].primary.feedbackHistory :
         \E j \in DOMAIN merged[1].result.feedbackHistory :
           merged[1].result.feedbackHistory[j] = merged[1].primary.feedbackHistory[i]
    /\ \A j \in DOMAIN merged[1].result.feedbackHistory :
         \/ \E i \in DOMAIN merged[1].primary.feedbackHistory :
              merged[1].result.feedbackHistory[j] = merged[1].primary.feedbackHistory[i]
         \/ \E i \in DOMAIN merged[1].secondary.feedbackHistory :
              merged[1].result.feedbackHistory[j] = merged[1].secondary.feedbackHistory[i]
    /\ merged[1].result.totalLikes = CountOf(merged[1].result.feedbackHistory, "like")
    /\ merged[1].result.totalDislikes = CountOf(merged[1].result.feedbackHistory, "dislike")
    /\ merged[1].result.attributeWeights
         = recalculateWeights(merged[1].result, merged[1].at).attributeWeights

\* A merge with a key in both states under different feedback, a key only
\* in the secondary, and weights that are those of neither input.
C12_Witness ==
  /\ merged # <<>>
  /\ \E i \in DOMAIN merged[1].primary.feedbackHistory :
       \E j \in DOMAIN merged[1].secondary.feedbackHistory :
         /\ merged[1].primary.feedbackHistory[i].mediaId = merged[1].secondary.feedbackHistory[j].mediaId
         /\ merged[1].primary.feedbackHistory[i].mediaType = merged[1].secondary.feedbackHistory[j].mediaType
         /\ merged[1].primary.feedbackHistory[i].feedback = "like"
         /\ merged[1].secondary.feedbackHistory[j].feedback = "dislike"
  /\ Len(merged[1].result.feedbackHistory) > Len(merged[1].primary.feedbackHistory)
  /\ merged[1].result.attributeWeights # merged[1].primary.attributeWeights
  /\ merged[1].result.attributeWeights # merged[1].secondary.attributeWeights

\* C13 - Lookup: after any sequence of recordFeedback and removeFeedback
\* calls, getFeedback(mediaId, mediaType) is the feedback of the latest
\* recordFeedback for the pair when no removeFeedback for the pair came
\* after it, and 'neutral' otherwise, also for a pair never recorded.
C13_GetFeedback ==
  \A id \in 1..(MaxMediaId + 1), type \in MediaTypes :
    getFeedback(state, id, type) =
      (IF <<id, type>> \in DOMAIN latest THEN latest[<<id, type>>] ELSE "neutral")

\* A disliked movie whose record is the only one, written after the clock
\* advanced: its lookup gives 'dislike', the lookup of the TV show of the
\* same id, which has no record, gives 'neutral'.
C13_Witness ==
  /\ Len(history) = 1
  /\ history[1].timestamp > 0
  /\ history[1].mediaType = "movie"
  /\ latest = [p \in {<<history[1].mediaId, "movie">>} |-> "dislike"]
  /\ getFeedback(state, history[1].mediaId, "movie") = "dislike"
  /\ getFeedback(state, history[1].mediaId, "tv") = "neutral"

\* C14 - Removal of an unknown target: removeFeedback for a (mediaId,
\* mediaType) pair with no record in the history returns the state as it
\* is: feedbackHistory, attributeWeights, totalLikes, totalDislikes and
\* lastUpdated are unchanged.
C14_RemoveAbsentIsNoOp ==
  \A id \in 1..(MaxMediaId + 1), type \in MediaTypes :
    FindIndex(history, id, type) = 0 =>
      /\ removeFeedback(state, id, type, now).feedbackHistory = state.feedbackHistory
      /\ removeFeedback(state, id, type, now).attributeWeights = state.attributeWeights
      /\ removeFeedback(state, id, type, now).totalLikes = state.totalLikes
      /\ removeFeedback(state, id, type, now).totalDislikes = state.totalDislikes
      /\ removeFeedback(state, id, type, now).lastUpdated = state.lastUpdated

\* A liked movie recorded before the clock advanced: removing the TV show
\* of the same id, which has no record, changes nothing, where removing the
\* movie would.
C14_Witness ==
  /\ Len(history) = 1
  /\ history[1].mediaType = "movie"
  /\ history[1].feedback = "like"
  /\ now > state.lastUpdated
  /\ removeFeedback(state, history[1].mediaId, "tv", now) = state
  /\ removeFeedback(state, history[1].mediaId, "movie", now) # state

(***************************************************************************)
(* Further properties of the confidence scorer                             *)
(***************************************************************************)
\* C15 - No match: when the best match is null or the candidate list is
\* empty, calculateConfidenceScore returns level 'ambiguous', score 0, every
\* factor 0, shouldProceed false, shouldClarify true, action 'reject' and
\* the message that asks to check the spelling.
C15_NoMatchScore ==
  (/\ confidence # <<>>
   /\ context.bestMatch = <<>> \/ Len(context.candidates) = 0)
  => /\ result.level = "ambiguous"
     /\ result.score = 0
     /\ result.factors.titleMatch = 0
     /\ result.factors.yearMatch = 0
     /\ result.factors.popularity = 0
     /\ result.factors.uniqueness = 0
     /\ result.factors.relevance = 0
     /\ ~result.behavior.shouldProceed
     /\ result.behavior.shouldClarify
     /\ result.behavior.action = "reject"
     /\ result.behavior.clarificationMessage # <<>>
     /\ result.behavior.clarificationMessage[1].kind = "check-spelling"

\* A best match scored against an empty candidate list.
C15_Witness ==
  /\ confidence # <<>>
  /\ context.bestMatch # <<>>
  /\ Len(context.candidates) = 0
  /\ result.behavior.action = "reject"

\* C18 - Score sum: for every result of calculateConfidenceScore, the
\* no-match result included, score = titleMatch + yearMatch + popularity +
\* uniqueness + relevance with the factors within 0..40, 0..20, 0..20, 0..10
\* and 0..10, so that score is within 0..100.
C18_ScoreIsFactorSum ==
  confidence # <<>> =>
    /\ result.score = result.factors.titleMatch + result.factors.yearMatch
                        + result.factors.popularity + result.factors.uniqueness
                        + result.factors.relevance
    /\ result.factors.titleMatch \in 0..40
    /\ result.factors.yearMatch \in 0..20
    /\ result.factors.popularity \in 0..20
    /\ result.factors.uniqueness \in 0..10
    /\ result.factors.relevance \in 0..10
    /\ result.score \in 0..100

\* A title matched up to its article, scored among strong alternatives:
\* every factor is positive and none is at its maximum.
C18_Witness ==
  /\ confidence # <<>>
  /\ result.factors.titleMatchType = "case-insensitive"
  /\ result.factors.titleMatch \in 1..39
  /\ result.factors.yearMatch \in 1..19
  /\ result.factors.popularity \in 1..19
  /\ result.factors.uniqueness \in 1..9
  /\ result.factors.relevance \in 1..9
  /\ result.score = result.factors.titleMatch + result.factors.yearMatch
                      + result.factors.popularity + result.factors.uniqueness
                      + result.factors.relevance

\* C19 - Monotone factors: with every other input fixed, yearMatch does not
\* increase as the absolute difference between the requested year and the
\* release year grows, and uniqueness does not increase as the number of
\* strong alternatives grows.
C19_MonotoneFactors ==
  (compared # <<>> /\ compared[1].inputs[1] <= compared[1].inputs[2])
    => compared[1].scores[1] >= compared[1].scores[2]

\* One more year of difference that costs yearMatch points.
C19_Witness ==
  /\ compared # <<>>
  /\ compared[1].of = "yearMatch"
  /\ compared[1].inputs = <<1, 2>>
  /\ compared[1].scores[1] > compared[1].scores[2]

(***************************************************************************)
(* The reference profiler: analyzeReferenceMovie, the cinematic profile    *)
(* and the cultural filter rules.  Of a profile, an analysis and the       *)
(* rules, the fields below are modelled; themes, pacing, visual style,     *)
(* star power and the texts for display are left out.                      *)
(***************************************************************************)
INDIAN_LANGUAGES == <<"hi", "te", "ta", "ml", "kn", "bn", "mr", "pa", "gu">>

\* NoValue: the language is not a key of the table.
LANGUAGE_TO_INDUSTRY(language) ==
  CASE language = "hi" -> "bollywood"
    [] language = "te" -> "tollywood"
    [] language = "ta" -> "kollywood"
    [] language = "ml" -> "mollywood"
    [] language = "kn" -> "sandalwood"
    [] language \in {"bn", "mr", "pa", "gu"} -> "indian-other"
    [] language = "en" -> "hollywood"
    [] language = "ko" -> "korean"
    [] language = "ja" -> "japanese"
    [] language \in {"zh", "cn", "yue"} -> "chinese"
    [] language \in {"de", "fr", "es", "it"} -> "european"
    [] OTHER -> NoValue

COUNTRY_TO_INDUSTRY(country) ==
  CASE country = "IN" -> "indian-other"
    [] country \in {"US", "GB"} -> "hollywood"
    [] country = "KR" -> "korean"
    [] country = "JP" -> "japanese"
    [] country \in {"CN", "HK", "TW"} -> "chinese"
    [] country \in {"DE", "FR", "ES", "IT"} -> "european"
    [] OTHER -> NoValue

\* The known blockbusters in the order of the table; an alias entry has no
\* field.
KNOWN_MASS_BLOCKBUSTERS ==
  <<[key |-> <<"b", "a", "a", "h", "u", "b", "a", "l", "i">>,
      profile |-> [narrativeScale |-> "epic", storytellingStyle |-> "action-spectacle", audienceType |-> "mass",
                  massAppealScore |-> 100, productionScale |-> "mega-budget"]],
    [key |-> <<"b", "a", "h", "u", "b", "a", "l", "i">>,
      profile |-> [narrativeScale |-> NoValue, storytellingStyle |-> NoValue, audienceType |-> NoValue,
                  massAppealScore |-> 0, productionScale |-> NoValue]],
    [key |-> <<"r", "r", "r">>,
      profile |-> [narrativeScale |-> "epic", storytellingStyle |-> "action-spectacle", audienceType |-> "mass",
                  massAppealScore |-> 100, productionScale |-> "mega-budget"]],
    [key |-> <<"p", "u", "s", "h", "p", "a">>,
      profile |-> [narrativeScale |-> "large", storytellingStyle |-> "commercial-masala", audienceType |-> "mass",
                  massAppealScore |-> 95, productionScale |-> "big-budget"]],
    [key |-> <<"k", "g", "f">>,
      profile |-> [narrativeScale |-> "epic", storytellingStyle |-> "action-spectacle", audienceType |-> "mass",
                  massAppealScore |-> 98, productionScale |-> "big-budget"]],
    [key |-> <<"s", "a", "l", "a", "a", "r">>,
      profile |-> [narrativeScale |-> "epic", storytellingStyle |-> "action-spectacle", audienceType |-> "mass",
                  massAppealScore |-> 92, productionScale |-> "mega-budget"]],
    [key |-> <<"k", "a", "l", "k", "i">>,
      profile |-> [narrativeScale |-> "epic", storytellingStyle |-> "action-spectacle", audienceType |-> "mass",
                  massAppealScore |-> 95, productionScale |-> "mega-budget"]],
    [key |-> <<"d", "e", "v", "a", "r", "a">>,
      profile |-> [narrativeScale |-> "large", storytellingStyle |-> "action-spectacle", audienceType |-> "mass",
                  massAppealScore |-> 90, productionScale |-> "mega-budget"]],
    [key |-> <<"m", "a", "g", "a", "d", "h", "e", "e", "r", "a">>,
      profile |-> [narrativeScale |-> "epic", storytellingStyle |-> "commercial-masala", audienceType |-> "mass",
                  massAppealScore |-> 92, productionScale |-> "big-budget"]],
    [key |-> <<"s", "a", "a", "h", "o">>,
      profile |-> [narrativeScale |-> "large", storytellingStyle |-> "action-spectacle", audienceType |-> "mass",
                  massAppealScore |-> 80, productionScale |-> "mega-budget"]],
    [key |-> <<"a", "n", "i", "m", "a", "l">>,
      profile |-> [narrativeScale |-> "large", storytellingStyle |-> "emotional-drama", audienceType |-> "mass",
                  massAppealScore |-> 88, productionScale |-> "big-budget"]],
    [key |-> <<"p", "a", "t", "h", "a", "a", "n">>,
      profile |-> [narrativeScale |-> "large", storytellingStyle |-> "action-spectacle", audienceType |-> "mass",
                  massAppealScore |-> 90, productionScale |-> "mega-budget"]],
    [key |-> <<"j", "a", "w", "a", "n">>,
      profile |-> [narrativeScale |-> "large", storytellingStyle |-> "commercial-masala", audienceType |-> "mass",
                  massAppealScore |-> 92, productionScale |-> "mega-budget"]],
    [key |-> <<"t", "i", "g", "e", "r">>,
      profile |-> [narrativeScale |-> "large", storytellingStyle |-> "action-spectacle", audienceType |-> "mass",
                  massAppealScore |-> 85, productionScale |-> "big-budget"]],
    [key |-> <<"g", "a", "d", "a", "r">>,
      profile |-> [narrativeScale |-> "epic", storytellingStyle |-> "emotional-drama", audienceType |-> "mass",
                  massAppealScore |-> 95, productionScale |-> "big-budget"]],
    [key |-> <<"d", "a", "n", "g", "a", "l">>,
      profile |-> [narrativeScale |-> "medium", storytellingStyle |-> "emotional-drama", audienceType |-> "family",
                  massAppealScore |-> 90, productionScale |-> "big-budget"]],
    [key |-> <<"b", "a", "j", "r", "a", "n", "g", "i", " ", "b", "h", "a", "i", "j", "a", "a", "n">>,
      profile |-> [narrativeScale |-> "medium", storytellingStyle |-> "emotional-drama", audienceType |-> "family",
                  massAppealScore |-> 92, productionScale |-> "big-budget"]],
    [key |-> <<"p", "a", "d", "m", "a", "a", "v", "a", "t">>,
      profile |-> [narrativeScale |-> "epic", storytellingStyle |-> "action-spectacle", audienceType |-> "mass",
                  massAppealScore |-> 85, productionScale |-> "mega-budget"]],
    [key |-> <<"t", "a", "n", "h", "a", "j", "i">>,
      profile |-> [narrativeScale |-> "epic", storytellingStyle |-> "action-spectacle", audienceType |-> "mass",
                  massAppealScore |-> 88, productionScale |-> "big-budget"]],
    [key |-> <<"v", "i", "k", "r", "a", "m">>,
      profile |-> [narrativeScale |-> "large", storytellingStyle |-> "action-spectacle", audienceType |-> "mass",
                  massAppealScore |-> 90, productionScale |-> "big-budget"]],
    [key |-> <<"l", "e", "o">>,
      profile |-> [narrativeScale |-> "large", storytellingStyle |-> "action-spectacle", audienceType |-> "mass",
                  massAppealScore |-> 88, productionScale |-> "big-budget"]],
    [key |-> <<"j", "a", "i", "l", "e", "r">>,
      profile |-> [narrativeScale |-> "large", storytellingStyle |-> "commercial-masala", audienceType |-> "mass",
                  massAppealScore |-> 92, productionScale |-> "big-budget"]],
    [key |-> <<"m", "a", "s", "t", "e", "r">>,
      profile |-> [narrativeScale |-> "medium", storytellingStyle |-> "commercial-masala", audienceType |-> "mass",
                  massAppealScore |-> 85, productionScale |-> "big-budget"]],
    [key |-> <<"r", "o", "b", "o", "t">>,
      profile |-> [narrativeScale |-> "epic", storytellingStyle |-> "action-spectacle", audienceType |-> "mass",
                  massAppealScore |-> 88, productionScale |-> "mega-budget"]],
    [key |-> <<"e", "n", "t", "h", "i", "r", "a", "n">>,
      profile |-> [narrativeScale |-> NoValue, storytellingStyle |-> NoValue, audienceType |-> NoValue,
                  massAppealScore |-> 0, productionScale |-> NoValue]],
    [key |-> <<"2", ".", "0">>,
      profile |-> [narrativeScale |-> "epic", storytellingStyle |-> "action-spectacle", audienceType |-> "mass",
                  massAppealScore |-> 85, productionScale |-> "mega-budget"]]>>

EPIC_KEYWORDS ==
  <<<<"k", "i", "n", "g", "d", "o", "m">>, <<"e", "m", "p", "i", "r", "e">>, <<"k", "i", "n", "g">>,
    <<"q", "u", "e", "e", "n">>, <<"w", "a", "r", "r", "i", "o", "r">>,
    <<"b", "a", "t", "t", "l", "e">>, <<"w", "a", "r">>, <<"l", "e", "g", "e", "n", "d">>,
    <<"d", "y", "n", "a", "s", "t", "y">>, <<"t", "h", "r", "o", "n", "e">>,
    <<"p", "r", "i", "n", "c", "e">>, <<"p", "r", "i", "n", "c", "e", "s", "s">>,
    <<"s", "a", "g", "a">>, <<"e", "p", "i", "c">>, <<"h", "e", "r", "o">>,
    <<"r", "a", "j", "a", "h">>, <<"r", "a", "j", "a">>, <<"r", "a", "n", "i">>,
    <<"y", "o", "d", "d", "h", "a">>, <<"s", "a", "i", "n", "i", "k">>,
    <<"y", "u", "d", "d", "h">>, <<"v", "e", "e", "r", "a">>, <<"v", "e", "e", "r">>>>

\* The keys of the known blockbusters, then the further titles.
KNOWN_INDIAN_EPICS ==
  [i \in DOMAIN KNOWN_MASS_BLOCKBUSTERS |-> KNOWN_MASS_BLOCKBUSTERS[i].key] \o
  <<<<"e", "e", "g", "a">>, <<"m", "a", "k", "k", "h", "i">>,
    <<"c", "h", "a", "t", "r", "a", "p", "a", "t", "h", "i">>,
    <<"v", "i", "k", "r", "a", "m", "a", "r", "k", "u", "d", "u">>,
    <<"s", "i", "m", "h", "a", "d", "r", "i">>, <<"p", "o", "k", "i", "r", "i">>,
    <<"g", "a", "b", "b", "a", "r", " ", "s", "i", "n", "g", "h">>,
    <<"t", "e", "m", "p", "e", "r">>,
    <<"a", "l", "a", " ", "v", "a", "i", "k", "u", "n", "t", "h", "a", "p", "u", "r", "r", "a", "m", "u", "l", "o", "o">>,
    <<"b", "h", "e", "e", "m", "l", "a", " ", "n", "a", "y", "a", "k">>,
    <<"s", "y", "e", " ", "r", "a", "a">>, <<"k", "r", "i", "s", "h">>,
    <<"a", "k", "h", "a", "n", "d", "a">>,
    <<"w", "a", "l", "t", "a", "i", "r", " ", "v", "e", "e", "r", "a", "y", "y", "a">>,
    <<"v", "e", "e", "r", "a", " ", "s", "i", "m", "h", "a", " ", "r", "e", "d", "d", "y">>,
    <<"d", "h", "r", "u", "v", "a">>, <<"a", "r", "j", "u", "n", " ", "r", "e", "d", "d", "y">>,
    <<"k", "a", "b", "i", "r", " ", "s", "i", "n", "g", "h">>, <<"j", "e", "r", "s", "e", "y">>,
    <<"d", "e", "a", "r", " ", "c", "o", "m", "r", "a", "d", "e">>,
    <<"m", "a", "h", "a", "n", "a", "t", "i">>,
    <<"r", "a", "n", "g", "a", "s", "t", "h", "a", "l", "a", "m">>,
    <<"b", "h", "a", "r", "a", "t", " ", "a", "n", "e", " ", "n", "e", "n", "u">>,
    <<"m", "a", "h", "a", "r", "s", "h", "i">>,
    <<"v", "a", "k", "e", "e", "l", " ", "s", "a", "a", "b">>,
    <<"t", "h", "e", " ", "g", "o", "a", "t">>, <<"g", "o", "a", "t">>,
    <<"t", "h", "u", "n", "i", "v", "u">>, <<"v", "a", "r", "i", "s", "u">>,
    <<"p", "o", "n", "n", "i", "y", "i", "n", " ", "s", "e", "l", "v", "a", "n">>,
    <<"p", "s", "1">>, <<"p", "s", "2">>, <<"b", "e", "a", "s", "t">>, <<"b", "i", "g", "i", "l">>,
    <<"s", "a", "r", "k", "a", "r">>, <<"m", "e", "r", "s", "a", "l">>,
    <<"t", "h", "e", "r", "i">>, <<"k", "a", "t", "h", "t", "h", "i">>,
    <<"m", "a", "n", "k", "a", "t", "h", "a">>, <<"v", "e", "d", "a", "l", "a", "m">>,
    <<"y", "e", "n", "n", "a", "i", " ", "a", "r", "i", "n", "d", "h", "a", "a", "l">>,
    <<"a", "r", "r", "a", "m", "b", "a", "m">>,
    <<"o", "p", "p", "e", "n", "h", "e", "i", "m", "e", "r">>, <<"a", "v", "a", "t", "a", "r">>,
    <<"a", "v", "e", "n", "g", "e", "r", "s">>,
    <<"t", "r", "a", "n", "s", "f", "o", "r", "m", "e", "r", "s">>>>

\* keywords.some(kw => text.includes(kw))
someIncluded(keywords, text) == \E i \in DOMAIN keywords : includes(text, keywords[i])

calculateReleaseEra(year) ==
  IF year = 0 THEN "unknown"
  ELSE IF year < 1990 THEN "classic"
  ELSE IF year >= 1990 /\ year < 2000 THEN "90s"
  ELSE IF year >= 2000 /\ year < 2010 THEN "2000s"
  ELSE IF year >= 2010 /\ year < 2020 THEN "2010s"
  ELSE "recent"

\* <<>>: null.  The first entry whose key the title includes and that is
\* not an alias.
findKnownProfile(titleLower) ==
  LET found == {i \in DOMAIN KNOWN_MASS_BLOCKBUSTERS :
                  /\ includes(titleLower, KNOWN_MASS_BLOCKBUSTERS[i].key)
                  /\ KNOWN_MASS_BLOCKBUSTERS[i].profile.narrativeScale # NoValue}
  IN IF found = {} THEN <<>> ELSE <<KNOWN_MASS_BLOCKBUSTERS[SetMin(found)].profile>>

fillProfileDefaults(partial, releaseYear, releaseEra) ==
  [narrativeScale |-> IF partial.narrativeScale # NoValue THEN partial.narrativeScale ELSE "large",
   storytellingStyle |-> IF partial.storytellingStyle # NoValue
                           THEN partial.storytellingStyle ELSE "commercial-masala",
   audienceType |-> IF partial.audienceType # NoValue THEN partial.audienceType ELSE "mass",
   massAppealScore |-> IF partial.massAppealScore # 0 THEN partial.massAppealScore ELSE 80,
   productionScale |-> IF partial.productionScale # NoValue
                         THEN partial.productionScale ELSE "big-budget",
   releaseYear |-> releaseYear,
   releaseEra |-> releaseEra]

hasGenre(genreIds, g) == \E i \in DOMAIN genreIds : genreIds[i] = g

analyzeNarrativeScale(text, genreIds, voteCount, popularity) ==
  IF someIncluded(EPIC_KEYWORDS, text) THEN "epic"
  ELSE IF voteCount > 10000 /\ popularity > 100 THEN "large"
  ELSE IF (hasGenre(genreIds, 28) \/ hasGenre(genreIds, 12)) /\ voteCount > 5000 THEN "large"
  ELSE IF hasGenre(genreIds, 18) /\ ~hasGenre(genreIds, 28) THEN "medium"
  ELSE IF hasGenre(genreIds, 10749) \/ hasGenre(genreIds, 35) THEN "medium"
  ELSE "unknown"

analyzeStorytellingStyle(text, genreIds, isIndianCinema) ==
  IF /\ isIndianCinema
     /\ hasGenre(genreIds, 28)
     /\ (hasGenre(genreIds, 10749) \/ hasGenre(genreIds, 35))
    THEN "commercial-masala"
  ELSE IF isIndianCinema /\ hasGenre(genreIds, 28) /\ ~hasGenre(genreIds, 18)
    THEN "action-spectacle"
  ELSE IF isIndianCinema /\ hasGenre(genreIds, 18) /\ ~hasGenre(genreIds, 28)
    THEN "emotional-drama"
  ELSE IF hasGenre(genreIds, 53) \/ hasGenre(genreIds, 9648) THEN "thriller-suspense"
  ELSE IF hasGenre(genreIds, 35) /\ ~hasGenre(genreIds, 28) THEN "comedy-entertainment"
  ELSE IF hasGenre(genreIds, 28) \/ hasGenre(genreIds, 12) THEN "action-spectacle"
  ELSE IF hasGenre(genreIds, 18) THEN "emotional-drama"
  ELSE "mixed"

analyzeAudienceType(genreIds, text, isIndianCinema) ==
  IF hasGenre(genreIds, 10751) \/ hasGenre(genreIds, 16) THEN "family"
  ELSE IF \/ includes(text, <<"c", "o", "l", "l", "e", "g", "e">>)
          \/ includes(text, <<"y", "o", "u", "t", "h">>)
          \/ includes(text, <<"y", "o", "u", "n", "g">>)
    THEN "youth"
  ELSE IF isIndianCinema /\ hasGenre(genreIds, 28) THEN "mass"
  ELSE IF hasGenre(genreIds, 99) \/ hasGenre(genreIds, 36) THEN "niche"
  ELSE "universal"

calculateMassAppealScore(narrativeScale, storytellingStyle, audienceType, voteCount, popularity, isIndianCinema) ==
  LET scaleBonus == CASE narrativeScale = "epic" -> 25
                      [] narrativeScale = "large" -> 15
                      [] narrativeScale = "medium" -> 5
                      [] OTHER -> 0
      styleBonus == CASE storytellingStyle = "commercial-masala" -> 20
                      [] storytellingStyle = "action-spectacle" -> 15
                      [] storytellingStyle = "emotional-drama" -> 10
                      [] OTHER -> 0
      audienceBonus == CASE audienceType = "mass" -> 15
                         [] audienceType = "family" -> 10
                         [] audienceType = "universal" -> 5
                         [] OTHER -> 0
      voteBonus == IF voteCount > 20000 THEN 10
                   ELSE IF voteCount > 10000 THEN 7
                   ELSE IF voteCount > 5000 THEN 5
                   ELSE 0
      popularityBonus == IF popularity > 100 THEN 5 ELSE 0
      indianBonus == IF isIndianCinema THEN 5 ELSE 0
  IN Min(100, Max(0, 50 + scaleBonus + styleBonus + audienceBonus + voteBonus
                       + popularityBonus + indianBonus))

estimateProductionScale(voteCount, popularity, narrativeScale, isIndianCinema) ==
  IF narrativeScale = "epic" /\ voteCount > 5000 THEN "mega-budget"
  ELSE IF voteCount > 20000 /\ popularity > 100 THEN "mega-budget"
  ELSE IF voteCount > 10000 \/ popularity > 80 THEN "big-budget"
  ELSE IF voteCount > 2000 THEN "mid-budget"
  ELSE "unknown"

\* The profile derived from the genres, the votes and the keywords.
derivedProfile(narrativeScale, storytellingStyle, audienceType, voteCount, popularity, isIndianCinema, releaseYear, releaseEra) ==
  [narrativeScale |-> narrativeScale,
   storytellingStyle |-> storytellingStyle,
   audienceType |-> audienceType,
   massAppealScore |-> calculateMassAppealScore(narrativeScale, storytellingStyle, audienceType,
                                                voteCount, popularity, isIndianCinema),
   productionScale |-> estimateProductionScale(voteCount, popularity, narrativeScale,
                                               isIndianCinema),
   releaseYear |-> releaseYear,
   releaseEra |-> releaseEra]

\* releaseYear is the year the release date starts with, 0 for none.
buildCinematicProfile(title, overview, genreIds, voteCount, popularity, isIndianCinema, originalLanguage, releaseYear) ==
  LET titleLower == toLowerCase(title)
      combinedText == titleLower \o <<" ">> \o toLowerCase(overview)
      releaseEra == calculateReleaseEra(releaseYear)
      knownProfile == findKnownProfile(titleLower)
  IN IF knownProfile # <<>>
       THEN fillProfileDefaults(knownProfile[1], releaseYear, releaseEra)
       ELSE derivedProfile(analyzeNarrativeScale(combinedText, genreIds, voteCount, popularity),
                           analyzeStorytellingStyle(combinedText, genreIds, isIndianCinema),
                           analyzeAudienceType(genreIds, combinedText, isIndianCinema),
                           voteCount, popularity, isIndianCinema, releaseYear, releaseEra)

determineIndustry(originalLanguage, productionCountries, title) ==
  LET known == {i \in DOMAIN productionCountries :
                  COUNTRY_TO_INDUSTRY(productionCountries[i]) # NoValue}
  IN IF LANGUAGE_TO_INDUSTRY(originalLanguage) # NoValue
       THEN LANGUAGE_TO_INDUSTRY(originalLanguage)
     ELSE IF known # {} THEN COUNTRY_TO_INDUSTRY(productionCountries[SetMin(known)])
     ELSE IF someIncluded(KNOWN_INDIAN_EPICS, toLowerCase(title)) THEN "tollywood"
     ELSE "other"

getPreferredLanguages(industry, originalLanguage) ==
  CASE industry = "bollywood" -> <<"hi", "te", "ta">>
    [] industry = "tollywood" -> <<"te", "hi", "ta", "kn">>
    [] industry = "kollywood" -> <<"ta", "hi", "te", "ml">>
    [] industry = "mollywood" -> <<"ml", "hi", "ta">>
    [] industry = "sandalwood" -> <<"kn", "hi", "te", "ta">>
    [] industry = "indian-other" -> <<"hi">> \o INDIAN_LANGUAGES
    [] industry = "korean" -> <<"ko">>
    [] industry = "japanese" -> <<"ja">>
    [] industry = "chinese" -> <<"zh", "cn", "yue">>
    [] industry = "european" -> <<originalLanguage, "en">>
    [] industry = "hollywood" -> <<"en">>
    [] OTHER -> <<originalLanguage>>

\* The analysis of a search record whose details lookup left details
\* (<<>>: null) and overview.
analysisOf(movieOrShow, type, details, overview, productionCountries, industry, isIndianCinema, westOfUTC) ==
  [id |-> movieOrShow.id,
   title |-> movieOrShow.title,
   type |-> type,
   originalLanguage |-> movieOrShow.original_language,
   productionCountries |-> productionCountries,
   spokenLanguages |-> IF details # <<>> THEN details[1].spoken_languages ELSE <<>>,
   genres |-> movieOrShow.genre_ids,
   releaseYear |-> localYear(movieOrShow, westOfUTC),
   voteCount |-> movieOrShow.vote_count,
   popularity |-> movieOrShow.popularity,
   overview |-> overview,
   industry |-> industry,
   preferredLanguages |-> getPreferredLanguages(industry, movieOrShow.original_language),
   isIndianCinema |-> isIndianCinema,
   isBollywood |-> industry = "bollywood",
   isHollywood |-> industry = "hollywood",
   isKorean |-> industry = "korean",
   isJapanese |-> industry = "japanese",
   isChinese |-> industry = "chinese",
   isEuropean |-> industry = "european",
   cinematicProfile |-> buildCinematicProfile(movieOrShow.title, overview, movieOrShow.genre_ids,
                                              movieOrShow.vote_count, movieOrShow.popularity,
                                              isIndianCinema, movieOrShow.original_language,
                                              parsedYear(movieOrShow))]

analysisOfDetails(movieOrShow, type, details, overview, productionCountries, westOfUTC) ==
  analysisOf(movieOrShow, type, details, overview, productionCountries,
             determineIndustry(movieOrShow.original_language, productionCountries,
                               movieOrShow.title),
             \/ \E i \in DOMAIN INDIAN_LANGUAGES :
                  INDIAN_LANGUAGES[i] = movieOrShow.original_language
             \/ \E i \in DOMAIN productionCountries : productionCountries[i] = "IN",
             westOfUTC)

\* lookup is what getMovieDetails / getTVShowDetails does: it throws, or it
\* returns details (<<>>: null).  A lookup that throws leaves details null
\* and the overview of the search record.
analyzeReferenceMovie(movieOrShow, type, lookup, westOfUTC) ==
  LET details == IF lookup.throws THEN <<>> ELSE lookup.details
  IN analysisOfDetails(movieOrShow, type, details,
                       IF details # <<>> /\ details[1].overview # <<>>
                         THEN details[1].overview ELSE movieOrShow.overview,
                       IF details # <<>> THEN details[1].production_countries ELSE <<>>,
                       westOfUTC)

getRequiredNarrativeScalesUpgradeOnly(scale) ==
  CASE scale = "epic" -> <<"epic", "large">>
    [] scale = "large" -> <<"epic", "large">>
    [] scale = "medium" -> <<"large">>
    [] scale = "intimate" -> <<"medium">>
    [] OTHER -> <<"epic", "large", "medium">>

getRequiredNarrativeScales(scale) ==
  CASE scale = "epic" -> <<"epic", "large">>
    [] scale = "large" -> <<"epic", "large">>
    [] scale = "medium" -> <<"medium", "large">>
    [] scale = "intimate" -> <<"intimate", "medium">>
    [] OTHER -> <<"epic", "large", "medium">>

getRequiredStorytellingStyles(style) ==
  CASE style = "commercial-masala" -> <<"commercial-masala", "action-spectacle">>
    [] style = "action-spectacle" -> <<"action-spectacle", "commercial-masala">>
    [] style = "emotional-drama" -> <<"emotional-drama", "commercial-masala">>
    [] style = "thriller-suspense" -> <<"thriller-suspense">>
    [] style = "comedy-entertainment" -> <<"comedy-entertainment", "commercial-masala">>
    [] style = "art-house" -> <<"art-house">>
    [] OTHER -> <<"commercial-masala", "action-spectacle", "emotional-drama">>

getRequiredAudienceTypes(audience) ==
  CASE audience = "mass" -> <<"mass", "universal">>
    [] audience = "family" -> <<"family", "universal">>
    [] audience = "youth" -> <<"youth", "mass">>
    [] audience = "mature" -> <<"mature">>
    [] audience = "niche" -> <<"niche">>
    [] OTHER -> <<"mass", "family", "universal">>

calculateMinimumMassAppeal(massAppealScore) ==
  IF massAppealScore >= 90 THEN 75
  ELSE IF massAppealScore >= 80 THEN 65
  ELSE IF massAppealScore >= 70 THEN 55
  ELSE 40

getMinimumProductionScale(scale) ==
  CASE scale = "mega-budget" -> "big-budget"
    [] scale = "big-budget" -> "mid-budget"
    [] OTHER -> "unknown"

determineEraFlexibility(profile) ==
  IF profile.releaseEra = "recent" /\ profile.massAppealScore >= 85 THEN "strict"
  ELSE IF profile.releaseEra = "2010s" /\ profile.massAppealScore >= 70 THEN "moderate"
  ELSE IF profile.releaseEra = "classic" \/ profile.storytellingStyle = "art-house"
    THEN "flexible"
  ELSE "moderate"

\* The rules before the language filtering of the industry is applied.
\* NoValue: the field is not set.
baseRules(info, profile) ==
  [preferredLanguages |-> info.preferredLanguages,
   excludeLanguages |-> <<>>,
   strictLanguageMatch |-> info.isIndianCinema,
   preferredCountries |-> <<>>,
   excludeCountries |-> <<>>,
   industry |-> info.industry,
   requiredNarrativeScale |-> getRequiredNarrativeScales(profile.narrativeScale),
   requiredStorytellingStyles |-> getRequiredStorytellingStyles(profile.storytellingStyle),
   requiredAudienceTypes |-> getRequiredAudienceTypes(profile.audienceType),
   minimumMassAppealScore |-> calculateMinimumMassAppeal(profile.massAppealScore),
   minimumProductionScale |-> getMinimumProductionScale(profile.productionScale),
   excludeArtHouse |-> profile.storytellingStyle # "art-house" /\ profile.massAppealScore > 60,
   excludeWesternRemakes |-> info.isIndianCinema,
   excludeLowBudget |-> profile.productionScale \in {"mega-budget", "big-budget"},
   referenceTitle |-> info.title,
   referenceId |-> info.id,
   referenceProfile |-> profile,
   referenceEra |-> profile.releaseEra,
   referenceYear |-> profile.releaseYear,
   preferSimilarEra |-> profile.releaseEra # "unknown",
   eraFlexibility |-> determineEraFlexibility(profile),
   withOriginalLanguage |-> NoValue,
   withoutOriginalLanguage |-> NoValue]

\* The language filtering with the pan-India relaxation left out: the
\* original language stays required whatever the mass appeal.
languageRulesAlwaysOriginal(info, profile, rules) ==
  IF info.isIndianCinema
    THEN [rules EXCEPT !.preferredCountries = <<"IN">>,
                       !.excludeLanguages = <<"en">>,
                       !.excludeCountries = <<"US", "GB">>,
                       !.strictLanguageMatch = TRUE,
                       !.withOriginalLanguage = info.originalLanguage,
                       !.withoutOriginalLanguage =
                          IF profile.massAppealScore >= 85 THEN "en" ELSE NoValue]
    ELSE rules

languageRules(info, profile, rules) ==
  IF info.isIndianCinema
    THEN [rules EXCEPT !.preferredCountries = <<"IN">>,
                       !.excludeLanguages = <<"en">>,
                       !.excludeCountries = <<"US", "GB">>,
                       !.strictLanguageMatch = TRUE,
                       !.withOriginalLanguage =
                          IF profile.massAppealScore >= 85 THEN NoValue
                          ELSE info.originalLanguage,
                       !.withoutOriginalLanguage =
                          IF profile.massAppealScore >= 85 THEN "en" ELSE NoValue]
  ELSE IF info.isKorean
    THEN [rules EXCEPT !.preferredCountries = <<"KR">>,
                       !.excludeCountries = <<"US", "GB", "IN">>,
                       !.withOriginalLanguage = "ko",
                       !.strictLanguageMatch = TRUE]
  ELSE IF info.isJapanese
    THEN [rules EXCEPT !.preferredCountries = <<"JP">>,
                       !.excludeCountries = <<"US", "GB">>,
                       !.withOriginalLanguage = "ja",
                       !.strictLanguageMatch = TRUE]
  ELSE IF info.isChinese
    THEN [rules EXCEPT !.preferredCountries = <<"CN", "HK", "TW">>,
                       !.withOriginalLanguage = "zh",
                       !.strictLanguageMatch = TRUE]
  ELSE IF info.isHollywood
    THEN [rules EXCEPT !.withOriginalLanguage = "en",
                       !.strictLanguageMatch = FALSE]
  ELSE rules

generateCulturalFilters(info) ==
  languageRules(info, info.cinematicProfile, baseRules(info, info.cinematicProfile))

\* What analyzeReferenceFromQuery returns for an analysis.
analyzed(info, found) ==
  [info |-> info, filters |-> generateCulturalFilters(info), confidence |-> found.confidence]

\* analyzeReferenceFromQuery with a details lookup whose failure is not
\* caught: the failure ends the analysis.
analyzeReferenceFromQueryLookupEscapes(title, found, lookup, westOfUTC) ==
  IF title = <<>> \/ found.movie = <<>> \/ lookup.throws THEN <<>>
  ELSE <<analyzed(analyzeReferenceMovie(found.movie[1], found.type, lookup, westOfUTC), found)>>

\* <<>>: null.  title is what the extraction found in the message (<<>>: no
\* title), found what findReferenceMovie(title, true, year) returned, and
\* lookup what the details lookup of the movie found does.
analyzeReferenceFromQuery(title, found, lookup, westOfUTC) ==
  IF title = <<>> \/ found.movie = <<>> THEN <<>>
  ELSE <<analyzed(analyzeReferenceMovie(found.movie[1], found.type, lookup, westOfUTC), found)>>

(***************************************************************************)
(* An analysis session: the catalog answers a search, then either the      *)
(* whole pipeline analyzes the query, or the profiler analyzes one search  *)
(* record                                                                  *)
(***************************************************************************)
\* What the catalog's details hold for a search record.
Details(movieOrShow) ==
  [overview |-> IF movieOrShow.id \in {1, 7} THEN <<>> ELSE OverviewKingdom,
   production_countries |-> CASE movieOrShow.original_language \in {"te", "hi", "ml"} -> <<"IN">>
                              [] movieOrShow.id = 3 -> <<"GB", "IN">>
                              [] movieOrShow.title = <<"E", "e", "g", "a">> -> <<"IN">>
                              [] movieOrShow.original_language = "en" -> <<"US">>
                              [] OTHER -> <<>>,
   spoken_languages |-> <<movieOrShow.original_language>>]

\* What a details lookup can do: throw, return null, or return the details.
Lookups(movieOrShow) ==
  {[throws |-> TRUE, details |-> <<Details(movieOrShow)>>],
   [throws |-> FALSE, details |-> <<>>],
   [throws |-> FALSE, details |-> <<Details(movieOrShow)>>]}

\* No lookup is made.
noLookup == [throws |-> FALSE, details |-> <<>>]

\* The lookups of the movie findReferenceMovie found.
LookupsOf(found) == IF found.movie # <<>> THEN Lookups(found.movie[1]) ELSE {noLookup}

AnalyzeFromQuery ==
  /\ search # <<>>
  /\ analysis = <<>>
  /\ reference = <<>>
  /\ \E failing \in {"none", "movies", "tv"}, westOfUTC \in BOOLEAN :
       \E found \in {findReferenceMovie(search[1].title, TRUE, search[1].year,
                                        search[1].movieResults, search[1].tvResults,
                                        failing, westOfUTC)} :
         \E lookup \in LookupsOf(found) :
           analysis' = <<[of |-> "query", failing |-> failing, lookup |-> lookup,
                          westOfUTC |-> westOfUTC, found |-> found,
                          result |-> analyzeReferenceFromQuery(search[1].title, found, lookup,
                                                               westOfUTC)]>>
  /\ UNCHANGED <<learnVars, resolveVars, merged, compared, eraCall, latest, syncVars>>

\* The search records the profiler is called with, beside those of the
\* catalog: titles with and without a known profile, in Indian and other
\* languages, of every popularity tier.
TitleSaaho == <<"S", "a", "a", "h", "o">>

TitleEega == <<"E", "e", "g", "a">>

ReferenceTitles == {TitleTemper, TitleSaaho, TitleEega}

ReferenceLanguages == {"te", "hi", "bn", "en", "ko", "ja", "zh", "fr", "xx"}

ReferenceGenres == {<<>>, <<28, 10749>>, <<28>>, <<18>>, <<53>>, <<10751, 35>>}

ReferenceVoteCounts == {0, 5001, 10001, 20001}

ReferencePopularities == {0, 101}

ReferenceYears == {0, 1985, 2015, 2021}

ReferenceRecords ==
  {[id |-> 7, kind |-> "movie", title |-> title, original_title |-> title,
    release_date |-> [year |-> year, newYearsDay |-> FALSE],
    vote_count |-> voteCount, popularity |-> popularity, original_language |-> language,
    overview |-> <<>>, genre_ids |-> genreIds] :
     title \in ReferenceTitles, year \in ReferenceYears, voteCount \in ReferenceVoteCounts,
     popularity \in ReferencePopularities, language \in ReferenceLanguages,
     genreIds \in ReferenceGenres}

AnalyzeReference ==
  /\ search = <<>>
  /\ analysis = <<>>
  /\ \E movieOrShow \in ReferenceRecords : \E lookup \in Lookups(movieOrShow) :
       analysis' = <<[of |-> "record", movieOrShow |-> movieOrShow, lookup |-> lookup,
                      result |-> <<analyzed(analyzeReferenceMovie(movieOrShow, "movie", lookup,
                                                                  FALSE),
                                            [confidence |-> "high"])>>]>>
  /\ UNCHANGED <<learnVars, resolveVars, merged, compared, eraCall, latest, syncVars>>

NextAnalyze == Search \/ AnalyzeFromQuery \/ AnalyzeReference

SpecAnalyze == InitDefault /\ [][NextAnalyze]_vars

(***************************************************************************)
(* Properties of the reference profiler                                    *)
(***************************************************************************)
\* The search call that fails was made: the movie search is the first
\* call, the series search is made when the movie search found nothing.
searchFailed ==
  \/ analysis[1].failing = "movies"
  \/ analysis[1].failing = "tv" /\ Len(search[1].movieResults) = 0

\* The search record an analysis was made of: <<>> when there is none.
analyzedRecord ==
  IF analysis[1].of = "query" THEN analysis[1].found.movie ELSE <<analysis[1].movieOrShow>>

\* The analysis built from the search record alone: no details, the
\* overview of the search record, no production country.
fromSearchRecord(movieOrShow, type, westOfUTC) ==
  analysisOfDetails(movieOrShow, type, <<>>, movieOrShow.overview, <<>>, westOfUTC)

\* C16 - Gateway failures are absorbed: when a search call that
\* findReferenceMovie makes fails, findReferenceMovie returns a null item
\* with confidence 'low' and analyzeReferenceFromQuery returns null; when
\* the details lookup fails, the analysis is still returned, and its
\* profile and the filter rules are those built from the search record.
C16_GatewayFailuresAbsorbed ==
  analysis # <<>> =>
    /\ (analysis[1].of = "query" /\ searchFailed) =>
         /\ analysis[1].found.movie = <<>>
         /\ analysis[1].found.confidence = "low"
         /\ analysis[1].result = <<>>
    /\ (analyzedRecord # <<>> /\ analysis[1].lookup.throws) =>
         /\ analysis[1].result # <<>>
         /\ \E westOfUTC \in BOOLEAN :
              analysis[1].result[1].info =
                fromSearchRecord(analyzedRecord[1], analysis[1].result[1].info.type, westOfUTC)
         /\ analysis[1].result[1].filters = generateCulturalFilters(analysis[1].result[1].info)

\* The details lookup of the English-language 'Temper' fails: its details
\* hold another overview and India among the production countries, the
\* analysis has the overview of the search record and no country.
C16_Witness ==
  /\ analysis # <<>>
  /\ analysis[1].of = "query"
  /\ analysis[1].failing = "none"
  /\ analysis[1].lookup.throws
  /\ analysis[1].found.movie = <<Movie(3)>>
  /\ analysis[1].result # <<>>
  /\ analysis[1].result[1].info.overview = OverviewYouth
  /\ analysis[1].result[1].info.productionCountries = <<>>
  /\ ~analysis[1].result[1].info.isIndianCinema
  /\ analysis[1].result[1].filters.withOriginalLanguage = "en"

\* C20 - Language rules of an Indian cinema reference: below a mass appeal
\* of 85 the rules exclude English and the US and GB productions and
\* require the original language of the reference; from 85 on they
\* require no language and exclude English by withoutOriginalLanguage.
\* withOriginalLanguage and withoutOriginalLanguage are never both set.
C20_RegionalLanguageRules ==
  (analysis # <<>> /\ analysis[1].result # <<>>) =>
    LET info == analysis[1].result[1].info
        filters == analysis[1].result[1].filters
    IN info.isIndianCinema =>
         /\ info.cinematicProfile.massAppealScore < 85 =>
              /\ \E i \in DOMAIN filters.excludeLanguages : filters.excludeLanguages[i] = "en"
              /\ \A country \in {"US", "GB"} :
                   \E i \in DOMAIN filters.excludeCountries :
                     filters.excludeCountries[i] = country
              /\ filters.withOriginalLanguage = info.originalLanguage
         /\ info.cinematicProfile.massAppealScore >= 85 =>
              /\ filters.withOriginalLanguage = NoValue
              /\ filters.withoutOriginalLanguage = "en"
         /\ ~(filters.withOriginalLanguage # NoValue /\ filters.withoutOriginalLanguage # NoValue)

\* A Telugu action film without a known profile whose mass appeal is
\* exactly 85.
C20_Witness ==
  /\ analysis # <<>>
  /\ analysis[1].of = "record"
  /\ analysis[1].movieOrShow.title = TitleTemper
  /\ analysis[1].movieOrShow.original_language = "te"
  /\ analysis[1].result[1].info.isIndianCinema
  /\ analysis[1].result[1].info.cinematicProfile.massAppealScore = 85
  /\ analysis[1].result[1].filters.withOriginalLanguage = NoValue
  /\ analysis[1].result[1].filters.withoutOriginalLanguage = "en"

(***************************************************************************)
(* Storage of the learning state: the local copy under the key of the      *)
(* signed-in user or of the guest session, and the debounced sync to the   *)
(* server record.  The storage treats a learning state as a whole; a       *)
(* state is here the set of those whose feedback its history holds (the    *)
(* users and "guest").                                                     *)
(***************************************************************************)
\* createEmptyState(): no feedback.
emptyLearningState == {}

loadLearningState(storage, signedIn) ==
  IF storage[getStorageKey(signedIn)] # <<>> THEN storage[getStorageKey(signedIn)][1]
  ELSE emptyLearningState

\* The timer of debouncedServerSync holds the state it was started with; a
\* pending timer is cleared.
debouncedServerSync(st) == <<st>>

\* The local storage and the timer after saveLearningState(st).
saveLearningState(storage, timeout, signedIn, st) ==
  [localStorage |-> [storage EXCEPT ![getStorageKey(signedIn)] = <<st>>],
   syncTimeout |-> IF isAuthenticated(signedIn) THEN debouncedServerSync(st) ELSE timeout]

\* The server records after syncToServer(st) while signedIn is Firebase's
\* current user: saveUserLearningState(user.uid, st).  With nobody signed
\* in the request of the fallback carries no user and stores nothing.
syncToServer(records, signedIn, st) ==
  IF signedIn # "none" THEN [records EXCEPT ![signedIn] = <<st>>] ELSE records

\* What loadFromServer returns (<<>>: null) and the local storage after it.
\* A load that fails (Firestore throws and the API route answers with an
\* error or throws) returns null as well.
loadFromServer(storage, records, signedIn, failing) ==
  IF ~isAuthenticated(signedIn) \/ failing \/ records[signedIn] = <<>>
    THEN [serverState |-> <<>>, localStorage |-> storage]
    ELSE [serverState |-> records[signedIn],
          localStorage |-> [storage EXCEPT ![getStorageKey(signedIn)] = records[signedIn]]]

\* mergeLearningStates over the users whose feedback the histories hold.
mergedFeedback(serverState, guestState) == serverState \cup guestState

\* The state migrateGuestToUser saves: <<>> when it saves nothing.
migratedState(loaded, guestState) ==
  IF loaded.serverState = <<>> \/ loaded.serverState[1] = {} THEN <<guestState>>
  ELSE IF guestState # {} THEN <<mergedFeedback(loaded.serverState[1], guestState)>>
  ELSE <<>>

\* The local storage after the guest data is cleaned up.
removeGuestData(storage) == [storage EXCEPT ![getStorageKey("none")] = <<>>]

\* The local storage and the timer after migrateGuestToUser, from the
\* state loadFromServer left.
migrateLoaded(loaded, timeout, signedIn, guestState) ==
  IF migratedState(loaded, guestState) = <<>>
    THEN [localStorage |-> removeGuestData(loaded.localStorage), syncTimeout |-> timeout]
    ELSE [localStorage |->
            removeGuestData(saveLearningState(loaded.localStorage, timeout, signedIn,
                                              migratedState(loaded, guestState)[1]).localStorage),
          syncTimeout |-> debouncedServerSync(migratedState(loaded, guestState)[1])]

migrateGuestToUser(storage, records, timeout, signedIn, failing) ==
  IF ~isAuthenticated(signedIn) \/ storage[getStorageKey("none")] = <<>>
    THEN [localStorage |-> storage, syncTimeout |-> timeout]
    ELSE migrateLoaded(loadFromServer(storage, records, signedIn, failing), timeout, signedIn,
                       storage[getStorageKey("none")][1])

\* The rater of a feedback click: the signed-in user, or the guest.
rater(signedIn) == IF signedIn # "none" THEN signedIn ELSE "guest"

\* handleFeedback of the feedback buttons: load, record or remove the
\* feedback of the one at the device, save.
HandleFeedback ==
  /\ \E actualFeedback \in {"like", "neutral"} :
       LET st == loadLearningState(localStorage, session)
           stored == saveLearningState(localStorage, syncTimeout, session,
                                       IF actualFeedback = "neutral"
                                         THEN st \ {rater(session)}
                                         ELSE st \cup {rater(session)})
       IN /\ localStorage' = stored.localStorage
          /\ syncTimeout' = stored.syncTimeout
          /\ saved' = IF session \in Users
                        THEN [saved EXCEPT ![session] = (actualFeedback = "like")]
                        ELSE saved
  /\ UNCHANGED <<learnVars, resolveVars, probeVars, latest, session, serverRecords>>

\* The timer of debouncedServerSync fires, 2 seconds after the save.
SyncToServer ==
  /\ syncTimeout # <<>>
  /\ serverRecords' = syncToServer(serverRecords, session, syncTimeout[1])
  /\ syncTimeout' = <<>>
  /\ UNCHANGED <<learnVars, resolveVars, probeVars, latest, session, localStorage, saved>>

SignOut ==
  /\ session # "none"
  /\ session' = "none"
  /\ UNCHANGED <<learnVars, resolveVars, probeVars, latest, localStorage, serverRecords,
                 syncTimeout, saved>>

\* A user signs in: the auth state listener loads the user's state from
\* the server, the sign-in migrates the guest data.  Either load may fail.
SignIn ==
  /\ session = "none"
  /\ \E user \in Users, listenerFails \in BOOLEAN, migrationFails \in BOOLEAN :
       LET loaded == loadFromServer(localStorage, serverRecords, user, listenerFails)
           migrated == migrateGuestToUser(loaded.localStorage, serverRecords, syncTimeout,
                                          user, migrationFails)
       IN /\ session' = user
          /\ localStorage' = migrated.localStorage
          /\ syncTimeout' = migrated.syncTimeout
  /\ UNCHANGED <<learnVars, resolveVars, probeVars, latest, serverRecords, saved>>

NextSync == HandleFeedback \/ SyncToServer \/ SignOut \/ SignIn

SpecSync == Init /\ [][NextSync]_vars

MaxCurrentYear == 2026

\* new Date().getFullYear()
CurrentYears == 2025..MaxCurrentYear

\* The years the query parser accepts as a release year (1900 to two years
\* ahead), and 0 for a year that is not known (null)
KnownYears(currentYear) == 1900..(currentYear + 2)

\* getEraYearRange: <<>> for null
getEraYearRange(releaseEra, currentYear) ==
  CASE releaseEra = "classic" -> <<[from |-> 1950, to |-> 1989]>>
    [] releaseEra = "90s" -> <<[from |-> 1990, to |-> 1999]>>
    [] releaseEra = "2000s" -> <<[from |-> 2000, to |-> 2009]>>
    [] releaseEra = "2010s" -> <<[from |-> 2010, to |-> 2019]>>
    [] releaseEra = "recent" -> <<[from |-> 2020, to |-> currentYear + 1]>>
    [] OTHER -> <<>>

ReleaseEras == {"classic", "90s", "2000s", "2010s", "recent", "unknown"}

StorytellingStyles ==
  {"commercial-masala", "action-spectacle", "emotional-drama", "thriller-suspense",
   "comedy-entertainment", "art-house", "mixed"}

\* One release year of every era, and no year
EraYears == {0, 1975, 1995, 2005, 2015, 2022}

MassAppealScores == {0, 60, 69, 70, 84, 85, 100}

\* The CinematicProfiles the era rules are asked about: every storytelling
\* style of the type, at every era and on both sides of the mass appeal
\* thresholds
EraProfiles ==
  { [narrativeScale |-> "personal", storytellingStyle |-> style, audienceType |-> "niche",
     massAppealScore |-> appeal, productionScale |-> "small", releaseYear |-> year,
     releaseEra |-> calculateReleaseEra(year)] :
       style \in StorytellingStyles, appeal \in MassAppealScores, year \in EraYears }

\* A release year is put in its era and the era's year range is asked for
CalculateReleaseEra ==
  /\ eraCall = <<>>
  /\ \E currentYear \in CurrentYears :
       \E year \in {0} \cup KnownYears(currentYear) :
         eraCall' = <<[of |-> "year", year |-> year, currentYear |-> currentYear,
                       releaseEra |-> calculateReleaseEra(year),
                       range |-> getEraYearRange(calculateReleaseEra(year), currentYear)]>>
  /\ UNCHANGED <<learnVars, resolveVars, merged, compared, analysis, latest, syncVars>>

\* The era flexibility of a profile is determined
DetermineEraFlexibility ==
  /\ eraCall = <<>>
  /\ \E profile \in EraProfiles :
       eraCall' = <<[of |-> "profile", profile |-> profile,
                     eraFlexibility |-> determineEraFlexibility(profile)]>>
  /\ UNCHANGED <<learnVars, resolveVars, merged, compared, analysis, latest, syncVars>>

NextEra == CalculateReleaseEra \/ DetermineEraFlexibility

SpecEra == InitDefault /\ [][NextEra]_vars

BucketYears(releaseEra, currentYear) ==
  CASE releaseEra = "classic" -> {year \in KnownYears(currentYear) : year < 1990}
    [] releaseEra = "90s" -> 1990..1999
    [] releaseEra = "2000s" -> 2000..2009
    [] releaseEra = "2010s" -> 2010..2019
    [] releaseEra = "recent" -> {year \in KnownYears(currentYear) : year >= 2020}
    [] OTHER -> {}

RangeYears(range) == IF range = <<>> THEN {} ELSE range[1].from..range[1].to

\* C22: calculateReleaseEra puts every known year in exactly one of the five
\* buckets, the bucket of its decade; the year ranges getEraYearRange reports
\* for the buckets are pairwise disjoint and the year lies inside the range
\* of its own bucket.
C22_ErasPartitionYears ==
  \A call \in {eraCall[i] : i \in DOMAIN eraCall} :
    call.of = "year" /\ call.year # 0 =>
      /\ call.releaseEra \in ReleaseEras \ {"unknown"}
      /\ call.year \in BucketYears(call.releaseEra, call.currentYear)
      /\ \A other \in ReleaseEras \ {call.releaseEra} :
           /\ call.year \notin BucketYears(other, call.currentYear)
           /\ RangeYears(getEraYearRange(other, call.currentYear)) \cap RangeYears(call.range) = {}
      /\ call.year \in RangeYears(call.range)

\* The positions of a ranked list that hold the item with this id
PositionsOf(items, id) == {i \in DOMAIN items : items[i].id = id}

\* C23: applyPersonalizedRanking returns a permutation of its input: every
\* input item appears exactly once in the output, also when the diversity
\* pass injects exploratory items, and the items that were not injected keep
\* their relative finalScore order.
C23_RankingIsPermutation ==
  \A call \in {ranking[i] : i \in DOMAIN ranking} :
    /\ \A id \in 1..call.size : Cardinality(PositionsOf(call.result, id)) = 1
    /\ Len(call.result) = call.size
    /\ LET injected(item) ==
             /\ call.result # call.sorted
             /\ \E i \in DOMAIN call.sorted :
                  /\ i > Min(10, call.size)
                  /\ call.sorted[i].id = item.id
                  /\ \E j \in DOMAIN call.result : j <= 10 /\ call.result[j].id = item.id
       IN \A i \in DOMAIN call.result, j \in DOMAIN call.result :
            i < j /\ ~injected(call.result[i]) /\ ~injected(call.result[j]) =>
              call.result[i].personalizationScore.finalScore
                >= call.result[j].personalizationScore.finalScore

\* A ranking in which the diversity pass moved an item
C23_Injected ==
  \E i \in DOMAIN ranking : ranking[i].result # ranking[i].sorted

\* C24: for every learning state whose weights lie within [-maxWeight,
\* +maxWeight] and every candidate, the preference adjustment of
\* calculatePersonalizationScore has magnitude at most 30 x
\* preferenceInfluence, also when only the language or only the industry
\* attribute contributes.
C24_AdjustmentBound ==
  \A call \in {score[i] : i \in DOMAIN score} :
    Abs(call.result.preferenceAdjustment) * 100
      <= 30 * ScoreUnit * state.config.preferenceInfluence

\* Math.max(0, Math.min(100, .)) of a score
Clamped(x) == Max(0, Min(100 * ScoreUnit, x))

\* The sum of the three reported parts of a result, clamped
ClampedSum(r) == Clamped(r.referenceScore + r.preferenceAdjustment + r.explorationBonus)

\* The reported preferenceAdjustment is rounded to one decimal: it is within
\* 0.05 of the adjustment that enters the finalScore
AdjustmentRounding == ScoreUnit \div 20

\* C25 as stated: in every branch of calculatePersonalizationScore the
\* finalScore is clamp(referenceScore + preference adjustment +
\* explorationBonus, 0, 100) with the explorationBonus reported in the same
\* result, also below minFeedbackThreshold.
C25_FinalScoreInEveryBranch ==
  \A call \in {score[i] : i \in DOMAIN score} :
    Abs(call.result.finalScore - ClampedSum(call.result)) <= AdjustmentRounding

\* C25 as amended: once the feedback count has reached minFeedbackThreshold
\* the finalScore is clamp(referenceScore + preference adjustment +
\* explorationBonus, 0, 100), the adjustment taken before it is rounded to
\* one decimal; below the threshold the finalScore is the referenceScore
\* alone and the reported explorationBonus is not added to it.
C25_FinalScore ==
  \A call \in {score[i] : i \in DOMAIN score} :
    IF state.totalLikes + state.totalDislikes < state.config.minFeedbackThreshold
      THEN call.result.finalScore = call.result.referenceScore
      ELSE Abs(call.result.finalScore - ClampedSum(call.result)) <= AdjustmentRounding

\* A score below the threshold whose reported exploration bonus is positive
C25_Witness ==
  /\ score # <<>>
  /\ state.totalLikes + state.totalDislikes < state.config.minFeedbackThreshold
  /\ score[1].result.explorationBonus > 0
  /\ score[1].result.finalScore = score[1].result.referenceScore
  /\ score[1].result.finalScore # ClampedSum(score[1].result)

\* The movie search returned candidates, none of which matches the search
\* title beyond the fuzzy tier
OnlyFuzzyMovies(s) ==
  /\ Len(s.movieResults) > 0
  /\ \A i \in DOMAIN s.movieResults :
       titleTier(toLowerCase(s.movieResults[i].title), trim(toLowerCase(s.title))).score = 20

\* The series candidates whose title equals the search title
ExactSeries(s) ==
  {s.tvResults[i] : i \in {j \in DOMAIN s.tvResults :
                             toLowerCase(s.tvResults[j].title) = trim(toLowerCase(s.title))}}

\* C26: findReferenceMovie prefers movies only while a movie match is strong:
\* when the movie search returns candidates none of which matches the title
\* beyond the fuzzy tier and the series search returns a candidate whose
\* title equals the search title, the series candidate is returned rather
\* than a movie.
C26_SeriesOverWeakMovies ==
  \A call \in {reference[i] : i \in DOMAIN reference} :
    /\ call.preferMovies
    /\ call.failing = "none"
    /\ OnlyFuzzyMovies(search[1])
    /\ ExactSeries(search[1]) # {}
    => /\ call.result.type = "tv"
       /\ call.result.movie # <<>>
       /\ call.result.movie[1] \in ExactSeries(search[1])

(***************************************************************************)
(* The session whose configuration is updated                              *)
(***************************************************************************)

\* updateConfig: { ...state, config: { ...state.config, ...updates },
\* lastUpdated: Date.now() }
updateConfig(st, updates, t) ==
  [st EXCEPT !.config = [k \in DOMAIN st.config |->
                           IF k \in DOMAIN updates THEN updates[k] ELSE st.config[k]],
             !.lastUpdated = t]

\* The Partial<LearningConfig> updates of the session: maxWeight lowered to
\* 0.2, maxWeight back at 0.8, a faster learning rate
ConfigUpdates ==
  {[maxWeight |-> 2000], [maxWeight |-> 8000], [learningRate |-> 5000]}

UpdateConfig ==
  \E updates \in ConfigUpdates :
    /\ state' = updateConfig(state, updates, now)
    /\ score' = <<>>
    /\ UNCHANGED <<now, ranking, resolveVars, storeVars>>

NextConfig == RecordFeedback \/ RemoveFeedback \/ UpdateConfig

SpecConfig == InitDefault /\ [][NextConfig]_vars

\* C27: the weight bound holds against the current config in every reachable
\* state, also after updateConfig: after any sequence of recordFeedback,
\* removeFeedback and updateConfig calls every stored weight has magnitude at
\* most state.config.maxWeight and equals the recomputation from the history
\* under the current config.
C27_BoundUnderCurrentConfig ==
  /\ \A d \in Dimensions :
       \A k \in DOMAIN state.attributeWeights[d] :
         Abs(state.attributeWeights[d][k]) <= state.config.maxWeight
  /\ state.attributeWeights = recalculateWeights(state, now).attributeWeights

Analyses == {analysis[i].result[1] : i \in {j \in DOMAIN analysis : analysis[j].result # <<>>}}

====
